---- MODULE Spec2Model ----
(***************************************************************************)
(* Model of the rule-based recognition engine of the maintenance           *)
(* application: src/motor_reconocimiento.py, class MotorReconocimiento.    *)
(*                                                                         *)
(* Conventions.                                                            *)
(*  - A Python str is a sequence of one-character strings; Python None in  *)
(*    a text position is the sentinel value None.                          *)
(*  - A nullable value (SQL NULL, Optional[...]) is a sequence of length   *)
(*    0 (absent) or 1 (present): NULL == <<>>, Algun(v) == <<v>>.          *)
(*  - A confidence is an exact rational held as an integer number of       *)
(*    1/Unidad; peso is held in tenths, as the data source stores it with  *)
(*    one decimal.                                                         *)
(***************************************************************************)
EXTENDS Integers, Sequences, FiniteSets, TLC

VARIABLES
    tabla_repuestos,              \* rows of palabras_clave_repuestos JOIN categorias_repuestos (active)
    tabla_trabajos,               \* rows of palabras_clave_trabajos JOIN categorias_trabajos (active)
    fuente_disponible,            \* the taxonomy tables of db_path can be read
    auditoria_disponible,         \* INSERT INTO clasificaciones_automaticas succeeds
    clasificaciones_automaticas,  \* the audit store, in insertion order
    motor,                        \* the MotorReconocimiento instance (its four caches)
    llamada,                      \* the last call made on the engine, with its arguments
    traza,                        \* the data-source statements that call issued, in order
    resultado,                    \* what that call returned or raised
    observado,                    \* what the caller was handed by its earlier calls, in order
    hilos                         \* the threads sharing the instance: where each is in its call

vars == <<tabla_repuestos, tabla_trabajos, fuente_disponible, auditoria_disponible,
          clasificaciones_automaticas, motor, llamada, traza, resultado, observado, hilos>>

\* ------------------------------------------------------------------ bounds

\* Longest string given to normalizar_texto in SpecNorm.
MaxLen == 4

\* ------------------------------------------------------------ basic values

NULL == <<>>
Algun(v) == <<v>>
None == <<"None">>

No_llamada == [op |-> "ninguna"]
Sin_resultado == [tipo |-> "ninguno"]

Min(a, b) == IF a <= b THEN a ELSE b

\* ------------------------------------------------------------- characters

Minusculas ==
    {"a", "b", "c", "d", "e", "f", "g", "h", "i", "j", "l", "m", "n", "o", "p", "r", "s",
     "t", "u", "v"}
Mayusculas == {"A", "B", "R", "S", "T"}
Acentuadas == {"á", "Á"}
Digitos == {"1", "2"}
\* Unicode category Mn: U+0301 COMBINING ACUTE ACCENT, written as its code point.
Combinantes == {"U+0301"}

\* str.lower(), character by character.
lower(c) ==
    CASE c = "A" -> "a"
      [] c = "B" -> "b"
      [] c = "R" -> "r"
      [] c = "S" -> "s"
      [] c = "T" -> "t"
      [] c = "Á" -> "á"
      [] OTHER -> c

\* unicodedata.normalize('NFD', c): the canonical decomposition of one character.
NFD(c) ==
    CASE c = "á" -> <<"a", "U+0301">>
      [] c = "Á" -> <<"A", "U+0301">>
      [] OTHER -> <<c>>

\* unicodedata.category(c) != 'Mn'
NoEsMn(c) == c \notin Combinantes

\* \s of the re module.
EsEspacio(c) == c \in {" ", "\t", "\n"}

\* \w of the re module (str patterns): letters, digits and the underscore.
EsPalabra(c) == c \in Minusculas \cup Mayusculas \cup Acentuadas \cup Digitos \cup {"_"}

RECURSIVE Aplanar(_)
Aplanar(ss) == IF ss = <<>> THEN <<>> ELSE Head(ss) \o Aplanar(Tail(ss))

RECURSIVE QuitarEspaciosIniciales(_)
QuitarEspaciosIniciales(s) ==
    IF s # <<>> /\ EsEspacio(Head(s)) THEN QuitarEspaciosIniciales(Tail(s)) ELSE s

RECURSIVE QuitarEspaciosFinales(_)
QuitarEspaciosFinales(s) ==
    IF s # <<>> /\ EsEspacio(s[Len(s)])
    THEN QuitarEspaciosFinales(SubSeq(s, 1, Len(s) - 1))
    ELSE s

\* str.strip()
strip(s) == QuitarEspaciosFinales(QuitarEspaciosIniciales(s))

\* re.sub(r'\s+', ' ', s): every maximal run of whitespace becomes one space.
RECURSIVE ColapsarEspacios(_)
ColapsarEspacios(s) ==
    IF s = <<>> THEN <<>>
    ELSE IF EsEspacio(Head(s))
         THEN <<" ">> \o ColapsarEspacios(QuitarEspaciosIniciales(Tail(s)))
         ELSE <<Head(s)>> \o ColapsarEspacios(Tail(s))

\* re.sub(r'[^\w\s]', ' ', s): every other character becomes a space, one for one.
ReemplazarEspeciales(s) ==
    [i \in 1..Len(s) |-> IF EsPalabra(s[i]) \/ EsEspacio(s[i]) THEN s[i] ELSE " "]

\* A mutant of normalizar_texto: accents are kept.
normalizar_texto_sin_acentos(texto) ==
    IF texto = None \/ texto = <<>> THEN <<>>
    ELSE strip(ReemplazarEspeciales(ColapsarEspacios([i \in 1..Len(texto) |-> lower(texto[i])])))

\* MotorReconocimiento.normalizar_texto
normalizar_texto(texto) ==
    IF texto = None \/ texto = <<>> THEN <<>>
    ELSE LET minusculas == [i \in 1..Len(texto) |-> lower(texto[i])]
             descompuesto == Aplanar([i \in 1..Len(minusculas) |-> NFD(minusculas[i])])
             sin_acentos == SelectSeq(descompuesto, NoEsMn)
             espacios == ColapsarEspacios(sin_acentos)
             limpio == ReemplazarEspeciales(espacios)
         IN strip(limpio)

\* ------------------------------------------------------- confidence scale

\* The integer that stands for confidence 1.0 (the ceiling of line 190).
Unidad == 200000

\* peso (in tenths) on the confidence scale, before the division by 2.0.
DePeso(peso) == peso * (Unidad \div 10)

\* ----------------------------------------------------------- substrings

\* palabra_norm in texto_normalizado
Contiene(sub, s) ==
    \E i \in 0..(Len(s) - Len(sub)) : SubSeq(s, i + 1, i + Len(sub)) = sub

\* \b of the re module at offset i of s (between s[i] and s[i+1]).
LimiteDePalabra(s, i) ==
    LET antes == i >= 1 /\ EsPalabra(s[i])
        despues == i < Len(s) /\ EsPalabra(s[i + 1])
    IN antes # despues

\* re.search(r'\b' + re.escape(palabra_norm) + r'\b', texto_normalizado)
CoincidePalabraCompleta(sub, s) ==
    \E i \in 0..(Len(s) - Len(sub)) :
        /\ SubSeq(s, i + 1, i + Len(sub)) = sub
        /\ LimiteDePalabra(s, i)
        /\ LimiteDePalabra(s, i + Len(sub))

\* ------------------------------------------------------- taxonomy loader

\* ORDER BY p.peso DESC, c.categoria_padre NULLS LAST: x must come before y.
VaAntes(x, y) ==
    \/ x.peso > y.peso
    \/ /\ x.peso = y.peso
       /\ x.categoria_padre # NULL
       /\ (y.categoria_padre = NULL \/ x.categoria_padre[1] < y.categoria_padre[1])

\* The row sequences conn.execute(query) may yield for a table: every order of
\* its rows that ORDER BY allows (rows that tie come in an unspecified order).
RECURSIVE Consulta(_)
Consulta(tabla) ==
    IF tabla = {} THEN {<<>>}
    ELSE UNION {{<<x>> \o f : f \in Consulta(tabla \ {x})} :
                   x \in {x \in tabla : \A y \in tabla : ~VaAntes(y, x)}}

\* A mutant of Anexar: palabras[clave] = [dato], the entry replaces those of
\* the key.
Anexar_reemplaza(palabras, clave, dato) ==
    IF \E i \in 1..Len(palabras) : palabras[i].palabra_norm = clave
    THEN [i \in 1..Len(palabras) |->
             IF palabras[i].palabra_norm = clave
             THEN [palabras[i] EXCEPT !.datos = <<dato>>]
             ELSE palabras[i]]
    ELSE Append(palabras, [palabra_norm |-> clave, datos |-> <<dato>>])

\* palabras[clave].append(dato) on a defaultdict(list) kept in insertion order.
Anexar(palabras, clave, dato) ==
    IF \E i \in 1..Len(palabras) : palabras[i].palabra_norm = clave
    THEN [i \in 1..Len(palabras) |->
             IF palabras[i].palabra_norm = clave
             THEN [palabras[i] EXCEPT !.datos = Append(@, dato)]
             ELSE palabras[i]]
    ELSE Append(palabras, [palabra_norm |-> clave, datos |-> <<dato>>])

\* The dict entry built from a row of the spare-parts query.
DatoRepuesto(row) ==
    [palabra_original |-> row.palabra,
     peso |-> row.peso,
     es_sinonimo |-> row.es_sinonimo,
     palabra_principal |-> row.palabra_principal,
     categoria_id |-> row.categoria_id,
     categoria_nombre |-> row.categoria_nombre,
     categoria_padre |-> row.categoria_padre,
     color_codigo |-> row.color_codigo]

\* The dict entry built from a row of the labor query.
DatoTrabajo(row) ==
    [palabra_original |-> row.palabra,
     peso |-> row.peso,
     es_sinonimo |-> row.es_sinonimo,
     palabra_principal |-> row.palabra_principal,
     categoria_id |-> row.categoria_id,
     categoria_nombre |-> row.categoria_nombre,
     categoria_padre |-> row.categoria_padre,
     color_codigo |-> row.color_codigo,
     complejidad |-> row.complejidad]

\* The loop of lines 98-109 over the first n rows.
RECURSIVE PalabrasRepuestosHasta(_, _)
PalabrasRepuestosHasta(filas, n) ==
    IF n = 0 THEN <<>>
    ELSE Anexar(PalabrasRepuestosHasta(filas, n - 1),
                normalizar_texto(filas[n].palabra), DatoRepuesto(filas[n]))

\* dict(palabras) after the loop of lines 98-109.
PalabrasRepuestos(filas) == PalabrasRepuestosHasta(filas, Len(filas))

\* The loop of lines 140-152 over the first n rows.
RECURSIVE PalabrasTrabajosHasta(_, _)
PalabrasTrabajosHasta(filas, n) ==
    IF n = 0 THEN <<>>
    ELSE Anexar(PalabrasTrabajosHasta(filas, n - 1),
                normalizar_texto(filas[n].palabra), DatoTrabajo(filas[n]))

\* dict(palabras) after the loop of lines 140-152.
PalabrasTrabajos(filas) == PalabrasTrabajosHasta(filas, Len(filas))

Select(tabla, ok) == [sentencia |-> "SELECT", tabla |-> tabla, ok |-> ok]
Insert(tipo, ok) == [sentencia |-> "INSERT", tabla |-> tipo, ok |-> ok]

Ok(valor) == [tipo |-> "ok", valor |-> valor]
Error(excepcion) == [tipo |-> "error", excepcion |-> excepcion]

\* Lines 112-113: the mapping is stored in the cache and returned.
GuardarCacheRepuestos(m, palabras) ==
    [motor |-> [m EXCEPT !.cache_palabras_repuestos = Algun(palabras)],
     traza |-> <<Select("palabras_clave_repuestos", TRUE)>>,
     resultado |-> Ok(palabras)]

\* Lines 155-156: the mapping is stored in the cache and returned.
GuardarCacheTrabajos(m, palabras) ==
    [motor |-> [m EXCEPT !.cache_palabras_trabajos = Algun(palabras)],
     traza |-> <<Select("palabras_clave_trabajos", TRUE)>>,
     resultado |-> Ok(palabras)]

\* A mutant of cargar_palabras_clave_repuestos: an unreadable source is taken
\* for an empty taxonomy.
cargar_palabras_clave_repuestos_vacio(m, disponible, filas) ==
    IF m.cache_palabras_repuestos # NULL
    THEN [motor |-> m, traza |-> <<>>, resultado |-> Ok(m.cache_palabras_repuestos[1])]
    ELSE IF ~disponible
         THEN [motor |-> [m EXCEPT !.cache_palabras_repuestos = Algun(<<>>)],
               traza |-> <<Select("palabras_clave_repuestos", FALSE)>>,
               resultado |-> Ok(<<>>)]
         ELSE GuardarCacheRepuestos(m, PalabrasRepuestos(filas))

\* A mutant of cargar_palabras_clave_repuestos: the test of line 76 is missing,
\* and every call reads the source.
cargar_palabras_clave_repuestos_sin_cache(m, disponible, filas) ==
    IF ~disponible
    THEN [motor |-> m,
          traza |-> <<Select("palabras_clave_repuestos", FALSE)>>,
          resultado |-> Error("OperationalError")]
    ELSE GuardarCacheRepuestos(m, PalabrasRepuestos(filas))

\* MotorReconocimiento.cargar_palabras_clave_repuestos, on engine m, with the
\* rows the query yields when the source can be read.
cargar_palabras_clave_repuestos(m, disponible, filas) ==
    IF m.cache_palabras_repuestos # NULL
    THEN [motor |-> m, traza |-> <<>>, resultado |-> Ok(m.cache_palabras_repuestos[1])]
    ELSE IF ~disponible
         THEN [motor |-> m,
               traza |-> <<Select("palabras_clave_repuestos", FALSE)>>,
               resultado |-> Error("OperationalError")]
         ELSE GuardarCacheRepuestos(m, PalabrasRepuestos(filas))

\* MotorReconocimiento.cargar_palabras_clave_trabajos
cargar_palabras_clave_trabajos(m, disponible, filas) ==
    IF m.cache_palabras_trabajos # NULL
    THEN [motor |-> m, traza |-> <<>>, resultado |-> Ok(m.cache_palabras_trabajos[1])]
    ELSE IF ~disponible
         THEN [motor |-> m,
               traza |-> <<Select("palabras_clave_trabajos", FALSE)>>,
               resultado |-> Error("OperationalError")]
         ELSE GuardarCacheTrabajos(m, PalabrasTrabajos(filas))

\* ------------------------------------------------------------ classifier

\* Lines 173-187 of detectar_repuestos: the confidence before it is brought
\* into 0-1. Mutant: the parent test of line 184 inverted.
puntaje_repuesto_invertido(dato, palabra_norm, texto_normalizado) ==
    LET c0 == DePeso(dato.peso)
        c1 == IF CoincidePalabraCompleta(palabra_norm, texto_normalizado)
              THEN (c0 * 15) \div 10 ELSE c0
        c2 == IF dato.es_sinonimo THEN (c1 * 8) \div 10 ELSE c1
    IN IF dato.categoria_padre = NULL THEN (c2 * 11) \div 10 ELSE (c2 * 9) \div 10

\* A mutant of puntaje_repuesto: line 177 multiplies by 1.5 without the test
\* of line 176.
puntaje_repuesto_bono_siempre(dato, palabra_norm, texto_normalizado) ==
    LET c0 == DePeso(dato.peso)
        c1 == (c0 * 15) \div 10
        c2 == IF dato.es_sinonimo THEN (c1 * 8) \div 10 ELSE c1
    IN IF dato.categoria_padre = NULL THEN (c2 * 9) \div 10 ELSE (c2 * 11) \div 10

\* A mutant of puntaje_repuesto: line 180 multiplies by 1.2.
puntaje_repuesto_sinonimo_premiado(dato, palabra_norm, texto_normalizado) ==
    LET c0 == DePeso(dato.peso)
        c1 == IF CoincidePalabraCompleta(palabra_norm, texto_normalizado)
              THEN (c0 * 15) \div 10 ELSE c0
        c2 == IF dato.es_sinonimo THEN (c1 * 12) \div 10 ELSE c1
    IN IF dato.categoria_padre = NULL THEN (c2 * 9) \div 10 ELSE (c2 * 11) \div 10

\* Lines 173-187 of detectar_repuestos: the confidence before it is brought
\* into 0-1.
puntaje_repuesto(dato, palabra_norm, texto_normalizado) ==
    LET c0 == DePeso(dato.peso)
        c1 == IF CoincidePalabraCompleta(palabra_norm, texto_normalizado)
              THEN (c0 * 15) \div 10 ELSE c0
        c2 == IF dato.es_sinonimo THEN (c1 * 8) \div 10 ELSE c1
    IN IF dato.categoria_padre = NULL THEN (c2 * 9) \div 10 ELSE (c2 * 11) \div 10

\* A mutant of puntaje_trabajo: line 257 tests complejidad >= 2.
puntaje_trabajo_desde_dos(dato, palabra_norm, texto_normalizado) ==
    LET c0 == DePeso(dato.peso)
        c1 == IF CoincidePalabraCompleta(palabra_norm, texto_normalizado)
              THEN (c0 * 15) \div 10 ELSE c0
        c2 == IF dato.es_sinonimo THEN (c1 * 8) \div 10 ELSE c1
        c3 == IF dato.categoria_padre = NULL THEN (c2 * 9) \div 10 ELSE (c2 * 11) \div 10
    IN IF dato.complejidad[1] >= 2 THEN (c3 * 12) \div 10 ELSE c3

\* Lines 240-258 of detectar_trabajos, for an entry whose complejidad is set.
puntaje_trabajo(dato, palabra_norm, texto_normalizado) ==
    LET c0 == DePeso(dato.peso)
        c1 == IF CoincidePalabraCompleta(palabra_norm, texto_normalizado)
              THEN (c0 * 15) \div 10 ELSE c0
        c2 == IF dato.es_sinonimo THEN (c1 * 8) \div 10 ELSE c1
        c3 == IF dato.categoria_padre = NULL THEN (c2 * 9) \div 10 ELSE (c2 * 11) \div 10
    IN IF dato.complejidad[1] >= 3 THEN (c3 * 12) \div 10 ELSE c3

\* A mutant of Acotar: confianza = confianza / 2.0, without the cap.
Acotar_sin_tope(puntaje) == puntaje \div 2

\* confianza = min(confianza / 2.0, 1.0)
Acotar(puntaje) == Min(puntaje \div 2, Unidad)

confianza_repuesto(dato, palabra_norm, texto_normalizado) ==
    Acotar(puntaje_repuesto(dato, palabra_norm, texto_normalizado))

confianza_trabajo(dato, palabra_norm, texto_normalizado) ==
    Acotar(puntaje_trabajo(dato, palabra_norm, texto_normalizado))

\* ClasificacionResultado(...) of lines 193-200 and 264-271.
ClasificacionResultado(dato, confianza) ==
    [categoria |-> dato.categoria_nombre,
     categoria_id |-> dato.categoria_id,
     confianza |-> confianza,
     palabras_encontradas |-> <<dato.palabra_original>>,
     es_categoria_padre |-> dato.categoria_padre = NULL,
     color_codigo |-> dato.color_codigo]

\* The entries the two nested loops visit among the first n keys of the mapping,
\* in order: for every key that occurs in the text, every entry under it.
RECURSIVE CoincidenciasHasta(_, _, _)
CoincidenciasHasta(palabras_clave, n, texto_normalizado) ==
    IF n = 0 THEN <<>>
    ELSE CoincidenciasHasta(palabras_clave, n - 1, texto_normalizado) \o
         (IF Contiene(palabras_clave[n].palabra_norm, texto_normalizado)
          THEN [i \in 1..Len(palabras_clave[n].datos) |->
                   [palabra_norm |-> palabras_clave[n].palabra_norm,
                    dato |-> palabras_clave[n].datos[i]]]
          ELSE <<>>)

Coincidencias(palabras_clave, texto_normalizado) ==
    CoincidenciasHasta(palabras_clave, Len(palabras_clave), texto_normalizado)

\* if confianza >= umbral_confianza. Mutant: the comparison turned round.
AlcanzaUmbral_invertido(confianza, umbral_confianza) == confianza <= umbral_confianza

\* if confianza >= umbral_confianza
AlcanzaUmbral(confianza, umbral_confianza) == confianza >= umbral_confianza

\* Lines 192-201: the candidate is appended when it reaches the threshold.
Agregar(clasificaciones, dato, confianza, umbral_confianza) ==
    IF AlcanzaUmbral(confianza, umbral_confianza)
    THEN Append(clasificaciones, ClasificacionResultado(dato, confianza))
    ELSE clasificaciones

\* The list clasificaciones of detectar_repuestos after the first n entries.
RECURSIVE CandidatosRepuestosHasta(_, _, _, _)
CandidatosRepuestosHasta(coincidencias, n, texto_normalizado, umbral_confianza) ==
    IF n = 0 THEN <<>>
    ELSE Agregar(CandidatosRepuestosHasta(coincidencias, n - 1, texto_normalizado,
                                          umbral_confianza),
                 coincidencias[n].dato,
                 confianza_repuesto(coincidencias[n].dato, coincidencias[n].palabra_norm,
                                    texto_normalizado),
                 umbral_confianza)

CandidatosRepuestos(coincidencias, texto_normalizado, umbral_confianza) ==
    CandidatosRepuestosHasta(coincidencias, Len(coincidencias), texto_normalizado,
                             umbral_confianza)

\* The list clasificaciones of detectar_trabajos after the first n entries.
RECURSIVE CandidatosTrabajosHasta(_, _, _, _)
CandidatosTrabajosHasta(coincidencias, n, texto_normalizado, umbral_confianza) ==
    IF n = 0 THEN <<>>
    ELSE Agregar(CandidatosTrabajosHasta(coincidencias, n - 1, texto_normalizado,
                                         umbral_confianza),
                 coincidencias[n].dato,
                 confianza_trabajo(coincidencias[n].dato, coincidencias[n].palabra_norm,
                                   texto_normalizado),
                 umbral_confianza)

CandidatosTrabajos(coincidencias, texto_normalizado, umbral_confianza) ==
    CandidatosTrabajosHasta(coincidencias, Len(coincidencias), texto_normalizado,
                            umbral_confianza)

\* A mutant of GuardarUnica: line 207 compares with >=, the last candidate of
\* the highest confidence is kept.
GuardarUnica_ultima(unicas, cls) ==
    IF \E i \in 1..Len(unicas) : unicas[i].categoria = cls.categoria
    THEN [i \in 1..Len(unicas) |->
             IF unicas[i].categoria = cls.categoria /\ cls.confianza >= unicas[i].confianza
             THEN cls ELSE unicas[i]]
    ELSE Append(unicas, cls)

\* One round of the loop of lines 205-208 on the dict clasificaciones_unicas,
\* held as the sequence of its values in key insertion order.
GuardarUnica(unicas, cls) ==
    IF \E i \in 1..Len(unicas) : unicas[i].categoria = cls.categoria
    THEN [i \in 1..Len(unicas) |->
             IF unicas[i].categoria = cls.categoria /\ cls.confianza > unicas[i].confianza
             THEN cls ELSE unicas[i]]
    ELSE Append(unicas, cls)

RECURSIVE UnicasHasta(_, _)
UnicasHasta(clasificaciones, n) ==
    IF n = 0 THEN <<>>
    ELSE GuardarUnica(UnicasHasta(clasificaciones, n - 1), clasificaciones[n])

\* Mutant of clasificaciones_unicas: no candidate is dropped.
clasificaciones_unicas_todas(clasificaciones) == clasificaciones

\* clasificaciones_unicas.values() after the loop of lines 205-208.
clasificaciones_unicas(clasificaciones) ==
    UnicasHasta(clasificaciones, Len(clasificaciones))

\* Where a stable sort by confianza, largest first, puts cls among the already
\* sorted ordenadas: after every element that is not smaller.
Insertar(ordenadas, cls) ==
    SubSeq(ordenadas, 1,
           Cardinality({i \in 1..Len(ordenadas) : ordenadas[i].confianza >= cls.confianza}))
    \o <<cls>> \o
    SubSeq(ordenadas,
           Cardinality({i \in 1..Len(ordenadas) : ordenadas[i].confianza >= cls.confianza}) + 1,
           Len(ordenadas))

RECURSIVE OrdenarHasta(_, _)
OrdenarHasta(unicas, n) ==
    IF n = 0 THEN <<>> ELSE Insertar(OrdenarHasta(unicas, n - 1), unicas[n])

\* Mutant of clasificaciones_finales: the dict values are not sorted.
clasificaciones_finales_sin_ordenar(unicas) == unicas

\* sorted(clasificaciones_unicas.values(), key=lambda x: x.confianza, reverse=True)
clasificaciones_finales(unicas) == OrdenarHasta(unicas, Len(unicas))

\* max([c.confianza for c in clasificaciones_finales], default=0.0)
Maximo(finales) ==
    IF finales = <<>> THEN 0
    ELSE CHOOSE m \in {finales[i].confianza : i \in 1..Len(finales)} :
             \A i \in 1..Len(finales) : finales[i].confianza <= m

\* Mutant of DeteccionCompleta: the best classification is the last of the list.
DeteccionCompleta_ultima(texto, texto_normalizado, finales) ==
    [texto_original |-> texto,
     texto_normalizado |-> texto_normalizado,
     clasificaciones |-> finales,
     mejor_clasificacion |-> IF finales # <<>> THEN Algun(finales[Len(finales)]) ELSE NULL,
     confianza_total |-> Maximo(finales)]

\* Lines 213-223 and 284-294: the DeteccionCompleta returned.
DeteccionCompleta(texto, texto_normalizado, finales) ==
    [texto_original |-> texto,
     texto_normalizado |-> texto_normalizado,
     clasificaciones |-> finales,
     mejor_clasificacion |-> IF finales # <<>> THEN Algun(finales[1]) ELSE NULL,
     confianza_total |-> Maximo(finales)]

\* Lines 203-223 and 274-294: from the candidates to the result.
Resolver(texto, texto_normalizado, clasificaciones) ==
    DeteccionCompleta(texto, texto_normalizado,
                      clasificaciones_finales(clasificaciones_unicas(clasificaciones)))

\* Lines 165-223 of detectar_repuestos, on the outcome of the load of line 163.
ClasificarRepuestos(carga, texto, texto_normalizado, umbral_confianza) ==
    IF carga.resultado.tipo = "error" THEN carga
    ELSE [motor |-> carga.motor,
          traza |-> carga.traza,
          resultado |->
              Ok(Resolver(texto, texto_normalizado,
                          CandidatosRepuestos(
                              Coincidencias(carga.resultado.valor, texto_normalizado),
                              texto_normalizado, umbral_confianza)))]

\* A mutant of detectar_repuestos: with the cache set and the source readable it
\* classifies on the rows the source holds now, and leaves the cache as it was.
detectar_repuestos_relee(m, disponible, filas, texto, umbral_confianza) ==
    IF m.cache_palabras_repuestos # NULL /\ disponible
    THEN ClasificarRepuestos([motor |-> m,
                              traza |-> <<Select("palabras_clave_repuestos", TRUE)>>,
                              resultado |-> Ok(PalabrasRepuestos(filas))],
                             texto, normalizar_texto(texto), umbral_confianza)
    ELSE ClasificarRepuestos(cargar_palabras_clave_repuestos(m, disponible, filas),
                             texto, normalizar_texto(texto), umbral_confianza)

\* MotorReconocimiento.detectar_repuestos on engine m.
detectar_repuestos(m, disponible, filas, texto, umbral_confianza) ==
    ClasificarRepuestos(cargar_palabras_clave_repuestos(m, disponible, filas),
                        texto, normalizar_texto(texto), umbral_confianza)

\* The loops of detectar_trabajos over the entries they visit. Line 257 compares
\* complejidad with 3: on an entry whose complejidad is NULL that raises.
PuntuarTrabajos(coincidencias, texto, texto_normalizado, umbral_confianza) ==
    IF \E i \in 1..Len(coincidencias) : coincidencias[i].dato.complejidad = NULL
    THEN Error("TypeError")
    ELSE Ok(Resolver(texto, texto_normalizado,
                     CandidatosTrabajos(coincidencias, texto_normalizado,
                                        umbral_confianza)))

\* Lines 232-294 of detectar_trabajos, on the outcome of the load of line 230.
ClasificarTrabajos(carga, texto, texto_normalizado, umbral_confianza) ==
    IF carga.resultado.tipo = "error" THEN carga
    ELSE [motor |-> carga.motor,
          traza |-> carga.traza,
          resultado |->
              PuntuarTrabajos(Coincidencias(carga.resultado.valor, texto_normalizado),
                              texto, texto_normalizado, umbral_confianza)]

\* MotorReconocimiento.detectar_trabajos on engine m.
detectar_trabajos(m, disponible, filas, texto, umbral_confianza) ==
    ClasificarTrabajos(cargar_palabras_clave_trabajos(m, disponible, filas),
                       texto, normalizar_texto(texto), umbral_confianza)

\* -------------------------------------------------------------- recorder

\* str(list): the serialisation of the lists of matched keywords.
str(lista) == [repr |-> lista]

\* A mutant of Registro: only the keywords of the best match are serialised.
Registro_solo_mejor(mantenimiento_id, deteccion, tipo) ==
    [mantenimiento_id |-> mantenimiento_id,
     texto_original |-> deteccion.texto_original,
     tipo |-> tipo,
     categoria_detectada |-> deteccion.mejor_clasificacion[1].categoria,
     confianza |-> deteccion.confianza_total,
     palabras_encontradas |->
         str(<<deteccion.mejor_clasificacion[1].palabras_encontradas>>)]

\* The row of clasificaciones_automaticas that lines 305-316 insert.
Registro(mantenimiento_id, deteccion, tipo) ==
    [mantenimiento_id |-> mantenimiento_id,
     texto_original |-> deteccion.texto_original,
     tipo |-> tipo,
     categoria_detectada |-> deteccion.mejor_clasificacion[1].categoria,
     confianza |-> deteccion.confianza_total,
     palabras_encontradas |->
         str([i \in 1..Len(deteccion.clasificaciones) |->
                 deteccion.clasificaciones[i].palabras_encontradas])]

\* A mutant of guardar_clasificacion: the INSERT replaces what the store held.
guardar_clasificacion_reemplaza(auditoria, disponible, mantenimiento_id, deteccion, tipo) ==
    IF deteccion.mejor_clasificacion = NULL
    THEN [auditoria |-> auditoria, traza |-> <<>>, resultado |-> Ok(NULL)]
    ELSE IF ~disponible
         THEN [auditoria |-> auditoria,
               traza |-> <<Insert(tipo, FALSE)>>,
               resultado |-> Error("OperationalError")]
         ELSE [auditoria |-> <<Registro(mantenimiento_id, deteccion, tipo)>>,
               traza |-> <<Insert(tipo, TRUE)>>,
               resultado |-> Ok(NULL)]

\* MotorReconocimiento.guardar_clasificacion on the audit store auditoria: the
\* INSERT raises when the store cannot be written, and nothing catches it.
guardar_clasificacion(auditoria, disponible, mantenimiento_id, deteccion, tipo) ==
    IF deteccion.mejor_clasificacion = NULL
    THEN [auditoria |-> auditoria, traza |-> <<>>, resultado |-> Ok(NULL)]
    ELSE IF ~disponible
         THEN [auditoria |-> auditoria,
               traza |-> <<Insert(tipo, FALSE)>>,
               resultado |-> Error("OperationalError")]
         ELSE [auditoria |-> Append(auditoria, Registro(mantenimiento_id, deteccion, tipo)),
               traza |-> <<Insert(tipo, TRUE)>>,
               resultado |-> Ok(NULL)]

\* -------------------------------------------------------------- analyzer

\* umbral_confianza: float = 0.3, on the confidence scale.
UmbralPorDefecto == 60000

\* descripcion.split('|')
RECURSIVE split(_)
split(s) ==
    IF \E i \in 1..Len(s) : s[i] = "|"
    THEN LET k == CHOOSE i \in 1..Len(s) :
                      s[i] = "|" /\ \A j \in 1..(i - 1) : s[j] # "|"
         IN <<SubSeq(s, 1, k - 1)>> \o split(SubSeq(s, k + 1, Len(s)))
    ELSE <<s>>

\* s.lower().startswith(prefijo)
EmpiezaCon(s, prefijo) ==
    /\ Len(s) >= Len(prefijo)
    /\ \A i \in 1..Len(prefijo) : lower(s[i]) = prefijo[i]

Etiqueta_repuesto == <<"r", "e", "p", "u", "e", "s", "t", "o">>
Etiqueta_trabajo == <<"t", "r", "a", "b", "a", "j", "o">>

\* A mutant of Repartir: the labels are not looked at.
Repartir_ambos(previo, parte) ==
    [texto_repuestos |-> previo.texto_repuestos \o <<" ">> \o parte,
     texto_trabajos |-> previo.texto_trabajos \o <<" ">> \o parte]

\* A mutant of Repartir: each label sends the segment to the other text.
Repartir_cruzado(previo, parte) ==
    IF EmpiezaCon(parte, Etiqueta_repuesto)
    THEN [previo EXCEPT !.texto_trabajos = @ \o <<" ">> \o parte]
    ELSE IF EmpiezaCon(parte, Etiqueta_trabajo)
         THEN [previo EXCEPT !.texto_repuestos = @ \o <<" ">> \o parte]
         ELSE [texto_repuestos |-> previo.texto_repuestos \o <<" ">> \o parte,
               texto_trabajos |-> previo.texto_trabajos \o <<" ">> \o parte]

\* One round of the loop of lines 339-348: the segment, stripped, is added to
\* the text of its label, or to both.
Repartir(previo, parte) ==
    IF EmpiezaCon(parte, Etiqueta_repuesto)
    THEN [previo EXCEPT !.texto_repuestos = @ \o <<" ">> \o parte]
    ELSE IF EmpiezaCon(parte, Etiqueta_trabajo)
         THEN [previo EXCEPT !.texto_trabajos = @ \o <<" ">> \o parte]
         ELSE [texto_repuestos |-> previo.texto_repuestos \o <<" ">> \o parte,
               texto_trabajos |-> previo.texto_trabajos \o <<" ">> \o parte]

RECURSIVE TextosHasta(_, _)
TextosHasta(partes, n) ==
    IF n = 0 THEN [texto_repuestos |-> <<>>, texto_trabajos |-> <<>>]
    ELSE Repartir(TextosHasta(partes, n - 1), strip(partes[n]))

\* texto_repuestos and texto_trabajos after the loop of lines 339-348.
Textos(partes) == TextosHasta(partes, Len(partes))

\* round(c.confianza * 100, 1), in tenths of a percent (ties to even).
Porcentaje(confianza) ==
    LET q == confianza \div (Unidad \div 1000)
        r == confianza % (Unidad \div 1000)
        medio == Unidad \div 2000
    IN IF r < medio THEN q
       ELSE IF r > medio THEN q + 1
       ELSE IF q % 2 = 0 THEN q ELSE q + 1

\* One element of the lists 'repuestos' and 'trabajos' of the report.
Renglon(c) ==
    [categoria |-> c.categoria,
     confianza |-> Porcentaje(c.confianza),
     palabras |-> c.palabras_encontradas,
     color |-> c.color_codigo]

\* A mutant of Top5: clasificaciones[-5:], the last five.
Top5_ultimos(clasificaciones) ==
    [i \in 1..Min(Len(clasificaciones), 5) |->
        Renglon(clasificaciones[Len(clasificaciones) - Min(Len(clasificaciones), 5) + i])]

\* clasificaciones[:5], as the report shows them.
Top5(clasificaciones) ==
    [i \in 1..Min(Len(clasificaciones), 5) |-> Renglon(clasificaciones[i])]

\* The dict returned at lines 326-332.
InformeVacio ==
    [repuestos |-> <<>>,
     trabajos |-> <<>>,
     confianza_repuestos |-> 0,
     confianza_trabajos |-> 0,
     resumen |-> "Sin descripción para analizar"]

\* The dict returned at lines 363-387.
Informe(deteccion_repuestos, deteccion_trabajos) ==
    [repuestos |-> Top5(deteccion_repuestos.clasificaciones),
     trabajos |-> Top5(deteccion_trabajos.clasificaciones),
     confianza_repuestos |-> Porcentaje(deteccion_repuestos.confianza_total),
     confianza_trabajos |-> Porcentaje(deteccion_trabajos.confianza_total),
     mejor_repuesto |-> IF deteccion_repuestos.mejor_clasificacion # NULL
                        THEN Algun(deteccion_repuestos.mejor_clasificacion[1].categoria)
                        ELSE NULL,
     mejor_trabajo |-> IF deteccion_trabajos.mejor_clasificacion # NULL
                       THEN Algun(deteccion_trabajos.mejor_clasificacion[1].categoria)
                       ELSE NULL,
     resumen |-> [tipos_de_repuestos |-> Len(deteccion_repuestos.clasificaciones),
                  tipos_de_trabajos |-> Len(deteccion_trabajos.clasificaciones)]]

\* if mantenimiento_id: an identifier that is given and is not 0.
Verdadero(mantenimiento_id) == mantenimiento_id # NULL /\ mantenimiento_id[1] # 0

\* Line 363: the report is returned, unless a guardar_clasificacion raised.
Responder(m, traza_previa, g, deteccion_repuestos, deteccion_trabajos) ==
    [motor |-> m, auditoria |-> g.auditoria, traza |-> traza_previa \o g.traza,
     resultado |-> IF g.resultado.tipo = "error" THEN g.resultado
                   ELSE Ok(Informe(deteccion_repuestos, deteccion_trabajos))]

\* What a guardar_clasificacion g is followed by: its exception leaves the
\* method; otherwise siguiente runs on the audit store it left.
Luego(g, siguiente) ==
    IF g.resultado.tipo = "error" THEN g
    ELSE [auditoria |-> siguiente.auditoria, traza |-> g.traza \o siguiente.traza,
          resultado |-> siguiente.resultado]

\* Lines 358-359 and 360-361: the detection is recorded if it has a best match.
GuardarSiHayMejor(auditoria, auditoria_ok, mantenimiento_id, deteccion, tipo) ==
    IF deteccion.mejor_clasificacion # NULL
    THEN guardar_clasificacion(auditoria, auditoria_ok, mantenimiento_id, deteccion, tipo)
    ELSE [auditoria |-> auditoria, traza |-> <<>>, resultado |-> Ok(NULL)]

\* Lines 358-361, once the first of the two has been recorded.
GuardarSegundo(g1, auditoria_ok, mantenimiento_id, deteccion_trabajos) ==
    Luego(g1, GuardarSiHayMejor(g1.auditoria, auditoria_ok, mantenimiento_id,
                                deteccion_trabajos, "trabajo"))

\* Lines 356-361: the two detections are recorded when an identifier is given.
Guardar(auditoria, auditoria_ok, mantenimiento_id, deteccion_repuestos, deteccion_trabajos) ==
    IF ~Verdadero(mantenimiento_id)
    THEN [auditoria |-> auditoria, traza |-> <<>>, resultado |-> Ok(NULL)]
    ELSE GuardarSegundo(GuardarSiHayMejor(auditoria, auditoria_ok, mantenimiento_id[1],
                                          deteccion_repuestos, "repuesto"),
                        auditoria_ok, mantenimiento_id[1], deteccion_trabajos)

\* Lines 356-387, on the outcomes d1 and d2 of the two detections.
TrasTrabajos(d1, d2, auditoria, auditoria_ok, mantenimiento_id) ==
    IF d2.resultado.tipo = "error"
    THEN [motor |-> d2.motor, auditoria |-> auditoria, traza |-> d1.traza \o d2.traza,
          resultado |-> d2.resultado]
    ELSE Responder(d2.motor, d1.traza \o d2.traza,
                   Guardar(auditoria, auditoria_ok, mantenimiento_id,
                           d1.resultado.valor, d2.resultado.valor),
                   d1.resultado.valor, d2.resultado.valor)

\* Lines 353-387, on the outcome d1 of detectar_repuestos.
TrasRepuestos(d1, auditoria, fuente_ok, auditoria_ok, filas_trabajos, texto_trabajos, mantenimiento_id) ==
    IF d1.resultado.tipo = "error"
    THEN [motor |-> d1.motor, auditoria |-> auditoria, traza |-> d1.traza,
          resultado |-> d1.resultado]
    ELSE TrasTrabajos(d1,
                      detectar_trabajos(d1.motor, fuente_ok, filas_trabajos,
                                        texto_trabajos, UmbralPorDefecto),
                      auditoria, auditoria_ok, mantenimiento_id)

\* Lines 350-387, on the two texts of the description.
AnalizarTextos(m, auditoria, fuente_ok, auditoria_ok, filas_repuestos, filas_trabajos, textos, mantenimiento_id) ==
    TrasRepuestos(detectar_repuestos(m, fuente_ok, filas_repuestos,
                                     textos.texto_repuestos, UmbralPorDefecto),
                  auditoria, fuente_ok, auditoria_ok, filas_trabajos,
                  textos.texto_trabajos, mantenimiento_id)

\* Lines 334-387 of analizar_mantenimiento_completo: what it does with a
\* description that passed the test of line 325.
AnalizarDescripcion(m, auditoria, fuente_ok, auditoria_ok, filas_repuestos, filas_trabajos, descripcion, mantenimiento_id) ==
    AnalizarTextos(m, auditoria, fuente_ok, auditoria_ok, filas_repuestos, filas_trabajos,
                   Textos(split(descripcion)), mantenimiento_id)

\* Mutant of analizar_mantenimiento_completo: the test of line 325 is missing.
analizar_mantenimiento_completo_sin_guarda(m, auditoria, fuente_ok, auditoria_ok, filas_repuestos, filas_trabajos, descripcion, mantenimiento_id) ==
    AnalizarDescripcion(m, auditoria, fuente_ok, auditoria_ok, filas_repuestos,
                        filas_trabajos, descripcion, mantenimiento_id)

\* MotorReconocimiento.analizar_mantenimiento_completo on engine m and audit
\* store auditoria.
analizar_mantenimiento_completo(m, auditoria, fuente_ok, auditoria_ok, filas_repuestos, filas_trabajos, descripcion, mantenimiento_id) ==
    IF descripcion = None \/ descripcion = <<>>
    THEN [motor |-> m, auditoria |-> auditoria, traza |-> <<>>,
          resultado |-> Ok(InformeVacio)]
    ELSE AnalizarDescripcion(m, auditoria, fuente_ok, auditoria_ok, filas_repuestos,
                             filas_trabajos, descripcion, mantenimiento_id)

\* A mutant of invalidar_cache: line 391 is missing.
invalidar_cache_solo_trabajos(m) ==
    [m EXCEPT !.cache_palabras_trabajos = NULL,
              !.cache_categorias_repuestos = NULL,
              !.cache_categorias_trabajos = NULL]

\* MotorReconocimiento.invalidar_cache
invalidar_cache(m) ==
    [cache_palabras_repuestos |-> NULL,
     cache_palabras_trabajos |-> NULL,
     cache_categorias_repuestos |-> NULL,
     cache_categorias_trabajos |-> NULL]

\* MotorReconocimiento.__init__
MotorNuevo ==
    [cache_palabras_repuestos |-> NULL,
     cache_palabras_trabajos |-> NULL,
     cache_categorias_repuestos |-> NULL,
     cache_categorias_trabajos |-> NULL]

\* ---------------------------------------------------------------- actions

Pendiente == [tipo |-> "pendiente"]

\* A call of normalizar_texto(texto).
NormalizarTexto(texto) ==
    /\ llamada' = [op |-> "normalizar_texto", texto |-> texto]
    /\ resultado' = Ok(normalizar_texto(texto))
    /\ traza' = <<>>
    /\ UNCHANGED <<tabla_repuestos, tabla_trabajos, fuente_disponible, auditoria_disponible,
                   clasificaciones_automaticas, motor>>

\* A call of cargar_palabras_clave_repuestos().
CargarPalabrasClaveRepuestos ==
    \E filas \in Consulta(tabla_repuestos) :
        \E r \in {cargar_palabras_clave_repuestos(motor, fuente_disponible, filas)} :
           /\ llamada' = [op |-> "cargar_palabras_clave_repuestos"]
           /\ motor' = r.motor
           /\ traza' = r.traza
           /\ resultado' = r.resultado
           /\ UNCHANGED <<tabla_repuestos, tabla_trabajos, fuente_disponible,
                          auditoria_disponible, clasificaciones_automaticas>>

\* A call of cargar_palabras_clave_trabajos().
CargarPalabrasClaveTrabajos ==
    \E filas \in Consulta(tabla_trabajos) :
        \E r \in {cargar_palabras_clave_trabajos(motor, fuente_disponible, filas)} :
           /\ llamada' = [op |-> "cargar_palabras_clave_trabajos"]
           /\ motor' = r.motor
           /\ traza' = r.traza
           /\ resultado' = r.resultado
           /\ UNCHANGED <<tabla_repuestos, tabla_trabajos, fuente_disponible,
                          auditoria_disponible, clasificaciones_automaticas>>

\* A call of detectar_repuestos(texto, umbral_confianza).
DetectarRepuestos(texto, umbral_confianza) ==
    \E filas \in Consulta(tabla_repuestos) :
        \E r \in {detectar_repuestos(motor, fuente_disponible, filas, texto, umbral_confianza)} :
           /\ llamada' = [op |-> "detectar_repuestos", texto |-> texto,
                          umbral_confianza |-> umbral_confianza]
           /\ motor' = r.motor
           /\ traza' = r.traza
           /\ resultado' = r.resultado
           /\ UNCHANGED <<tabla_repuestos, tabla_trabajos, fuente_disponible,
                          auditoria_disponible, clasificaciones_automaticas>>

\* A call of detectar_trabajos(texto, umbral_confianza).
DetectarTrabajos(texto, umbral_confianza) ==
    \E filas \in Consulta(tabla_trabajos) :
        \E r \in {detectar_trabajos(motor, fuente_disponible, filas, texto, umbral_confianza)} :
           /\ llamada' = [op |-> "detectar_trabajos", texto |-> texto,
                          umbral_confianza |-> umbral_confianza]
           /\ motor' = r.motor
           /\ traza' = r.traza
           /\ resultado' = r.resultado
           /\ UNCHANGED <<tabla_repuestos, tabla_trabajos, fuente_disponible,
                          auditoria_disponible, clasificaciones_automaticas>>

\* A call of analizar_mantenimiento_completo(descripcion, mantenimiento_id).
AnalizarMantenimientoCompleto(descripcion, mantenimiento_id) ==
    \E filas_repuestos \in Consulta(tabla_repuestos), filas_trabajos \in Consulta(tabla_trabajos) :
        \E r \in {analizar_mantenimiento_completo(motor, clasificaciones_automaticas,
                                                 fuente_disponible, auditoria_disponible,
                                                 filas_repuestos, filas_trabajos,
                                                 descripcion, mantenimiento_id)} :
           /\ llamada' = [op |-> "analizar_mantenimiento_completo",
                          descripcion |-> descripcion,
                          mantenimiento_id |-> mantenimiento_id]
           /\ motor' = r.motor
           /\ clasificaciones_automaticas' = r.auditoria
           /\ traza' = r.traza
           /\ resultado' = r.resultado
           /\ UNCHANGED <<tabla_repuestos, tabla_trabajos, fuente_disponible,
                          auditoria_disponible>>

\* A call of guardar_clasificacion(mantenimiento_id, deteccion, tipo).
GuardarClasificacion(mantenimiento_id, deteccion, tipo) ==
    \E r \in {guardar_clasificacion(clasificaciones_automaticas, auditoria_disponible, mantenimiento_id, deteccion, tipo)} :
       /\ llamada' = [op |-> "guardar_clasificacion", mantenimiento_id |-> mantenimiento_id,
                      tipo |-> tipo]
       /\ clasificaciones_automaticas' = r.auditoria
       /\ traza' = r.traza
       /\ resultado' = r.resultado
       /\ UNCHANGED <<tabla_repuestos, tabla_trabajos, fuente_disponible,
                      auditoria_disponible, motor>>

\* A call of invalidar_cache().
InvalidarCache ==
    /\ llamada' = [op |-> "invalidar_cache"]
    /\ motor' = invalidar_cache(motor)
    /\ traza' = <<>>
    /\ resultado' = Ok(NULL)
    /\ UNCHANGED <<tabla_repuestos, tabla_trabajos, fuente_disponible, auditoria_disponible,
                   clasificaciones_automaticas>>

\* The environment: the taxonomy tables become unreadable, or readable again.
CambiaFuente ==
    /\ fuente_disponible' = ~fuente_disponible
    /\ UNCHANGED <<tabla_repuestos, tabla_trabajos, auditoria_disponible,
                   clasificaciones_automaticas, motor, llamada, traza, resultado>>

\* The environment: the audit table stops accepting inserts, or accepts them again.
CambiaAuditoria ==
    /\ auditoria_disponible' = ~auditoria_disponible
    /\ UNCHANGED <<tabla_repuestos, tabla_trabajos, fuente_disponible,
                   clasificaciones_automaticas, motor, llamada, traza, resultado>>

\* ------------------------------------------------------------------- data

\* A row of the spare-parts query (lines 82-96).
FilaRepuesto(palabra, peso, es_sinonimo, palabra_principal, id, nombre, padre, color) ==
    [palabra |-> palabra, peso |-> peso, es_sinonimo |-> es_sinonimo,
     palabra_principal |-> palabra_principal, categoria_id |-> id,
     categoria_nombre |-> nombre, categoria_padre |-> padre, color_codigo |-> color]

\* A row of the labor query (lines 123-138).
FilaTrabajo(palabra, peso, es_sinonimo, palabra_principal, id, nombre, padre, color, complejidad) ==
    [palabra |-> palabra, peso |-> peso, es_sinonimo |-> es_sinonimo,
     palabra_principal |-> palabra_principal, categoria_id |-> id,
     categoria_nombre |-> nombre, categoria_padre |-> padre, color_codigo |-> color,
     complejidad |-> complejidad]

\* The rows the classifier is checked on: two categories sharing the keyword
\* "ab", one root and one leaf; a synonym with an accent; a heavier keyword that
\* is a synonym; a keyword of punctuation only; a weight that saturates.
FilasRepuestos ==
    {FilaRepuesto(<<"a", "b">>, 10, FALSE, NULL, 1, "Filtros", NULL, "#3498db"),
     FilaRepuesto(<<"a", "b">>, 10, FALSE, NULL, 2, "Filtros de aceite", Algun(1), "#2980b9"),
     FilaRepuesto(<<"á", "b">>, 10, TRUE, Algun(<<"a", "b">>), 1, "Filtros", NULL, "#3498db"),
     FilaRepuesto(<<"b">>, 12, TRUE, NULL, 3, "Bombas", NULL, "#e74c3c"),
     FilaRepuesto(<<"-">>, 10, FALSE, NULL, 4, "Varios", NULL, "#95a5a6"),
     FilaRepuesto(<<"b">>, 20, FALSE, NULL, 2, "Filtros de aceite", Algun(1), "#2980b9")}

FilasTrabajos ==
    {FilaTrabajo(<<"a", "b">>, 10, FALSE, NULL, 1, "Mantenimiento General", NULL, "#27ae60", Algun(1)),
     FilaTrabajo(<<"a", "b">>, 10, FALSE, NULL, 2, "Soldadura", Algun(1), "#d35400", Algun(1)),
     FilaTrabajo(<<"á", "b">>, 10, TRUE, Algun(<<"a", "b">>), 1, "Mantenimiento General", NULL, "#27ae60", Algun(1)),
     FilaTrabajo(<<"b">>, 12, TRUE, NULL, 3, "Electricidad", NULL, "#f1c40f", Algun(3)),
     FilaTrabajo(<<"-">>, 10, FALSE, NULL, 4, "Varios", NULL, "#95a5a6", Algun(2)),
     FilaTrabajo(<<"b">>, 20, FALSE, NULL, 5, "Hidraulica", Algun(1), "#8e44ad", NULL)}

\* Most rows of a taxonomy table in SpecClas.
MaxFilas == 2

Tablas(filas) == {t \in SUBSET filas : Cardinality(t) <= MaxFilas}

\* The texts given to the classifier in SpecClas.
TextosClas ==
    {None, <<>>, <<" ">>, <<"\t", " ">>,
     <<"a", "b">>, <<"Á", "B">>, <<"c", "a", "b">>, <<"b">>,
     <<"a", "b", ",", " ", "b">>, <<"a", " ", "b">>, <<"c", "d">>}

\* The thresholds given to the classifier in SpecClas: 0.0, the default 0.3,
\* 0.6 and 1.0.
Umbrales == {0, UmbralPorDefecto, 2 * UmbralPorDefecto, Unidad}

\* The strings given to normalizar_texto in SpecNorm.
AlfabetoNorm == {"a", "Á", "1", " ", "\t", ","}

Cadenas == {None} \cup UNION {[1..n -> AlfabetoNorm] : n \in 0..MaxLen}

\* ------------------------------------------------------- specifications

\* The engine after crear_motor_reconocimiento(), before any call.
Construido ==
    /\ fuente_disponible = TRUE
    /\ auditoria_disponible = TRUE
    /\ clasificaciones_automaticas = <<>>
    /\ motor = MotorNuevo
    /\ traza = <<>>
    /\ observado = <<>>
    /\ hilos = <<>>

\* A call made by a single caller that keeps nothing of it changes neither what
\* was observed before nor any thread.
Quietos == UNCHANGED <<observado, hilos>>

\* SpecNorm: one call of normalizar_texto on a string of Cadenas.
InitNorm ==
    /\ Construido
    /\ tabla_repuestos = {}
    /\ tabla_trabajos = {}
    /\ \E texto \in Cadenas : llamada = [op |-> "normalizar_texto", texto |-> texto]
    /\ resultado = Pendiente

NormNormalizarTexto ==
    /\ resultado.tipo = "pendiente"
    /\ NormalizarTexto(llamada.texto)
    /\ Quietos

NextNorm == NormNormalizarTexto

SpecNorm == InitNorm /\ [][NextNorm]_vars

\* SpecClas: one call of the classifier of either kind on a new engine, for a
\* taxonomy table, a text and a threshold. The table of the other kind plays no
\* part in the call and is empty.
InitClas ==
    /\ Construido
    /\ \/ tabla_repuestos \in Tablas(FilasRepuestos) /\ tabla_trabajos = {}
          /\ \E texto \in TextosClas, umbral \in Umbrales :
                llamada = [op |-> "detectar_repuestos", texto |-> texto,
                           umbral_confianza |-> umbral]
       \/ tabla_trabajos \in Tablas(FilasTrabajos) /\ tabla_repuestos = {}
          /\ \E texto \in TextosClas, umbral \in Umbrales :
                llamada = [op |-> "detectar_trabajos", texto |-> texto,
                           umbral_confianza |-> umbral]
    /\ resultado = Pendiente

ClasDetectarRepuestos ==
    /\ resultado.tipo = "pendiente"
    /\ llamada.op = "detectar_repuestos"
    /\ DetectarRepuestos(llamada.texto, llamada.umbral_confianza)
    /\ Quietos

ClasDetectarTrabajos ==
    /\ resultado.tipo = "pendiente"
    /\ llamada.op = "detectar_trabajos"
    /\ DetectarTrabajos(llamada.texto, llamada.umbral_confianza)
    /\ Quietos

NextClas == ClasDetectarRepuestos \/ ClasDetectarTrabajos

SpecClas == InitClas /\ [][NextClas]_vars

\* Most rows of clasificaciones_automaticas in Spec: a call that is given an
\* identifier starts only while two more rows fit.
MaxRegistros == 2

\* The taxonomy tables of Spec.
TablasRepuestosMotor ==
    {{FilaRepuesto(<<"c", "d">>, 10, FALSE, NULL, 1, "Filtros", NULL, "#3498db")},
     {FilaRepuesto(<<"c", "d">>, 10, FALSE, NULL, 1, "Filtros", NULL, "#3498db"),
      FilaRepuesto(<<"d", "c">>, 10, TRUE, NULL, 2, "Filtros de aceite", Algun(1), "#2980b9")}}

TablasTrabajosMotor ==
    {{},
     {FilaTrabajo(<<"d", "c">>, 10, FALSE, NULL, 1, "Mantenimiento General", NULL, "#27ae60", Algun(1)),
      FilaTrabajo(<<"c", "d">>, 10, FALSE, NULL, 2, "Soldadura", Algun(1), "#d35400", Algun(3))}}

\* The descriptions given to analizar_mantenimiento_completo in Spec: None, "",
\* " ", "cd", "Repuesto cd|Trabajo dc" and "trabajo cd|repuesto dc".
Descripciones ==
    {None, <<>>, <<" ">>, <<"c", "d">>,
     <<"R", "e", "p", "u", "e", "s", "t", "o", " ", "c", "d", "|",
       "T", "r", "a", "b", "a", "j", "o", " ", "d", "c">>,
     <<"t", "r", "a", "b", "a", "j", "o", " ", "c", "d", "|",
       "r", "e", "p", "u", "e", "s", "t", "o", " ", "d", "c">>}

\* The mantenimiento_id given: none, 0 and 1.
Identificadores == {NULL, Algun(0), Algun(1)}

\* Spec: calls on one engine instance, one after the other, while the data
\* source and the audit store come and go.
Init ==
    /\ Construido
    /\ tabla_repuestos \in TablasRepuestosMotor
    /\ tabla_trabajos \in TablasTrabajosMotor
    /\ llamada = No_llamada
    /\ resultado = Sin_resultado

Analizar ==
    \E descripcion \in Descripciones, mantenimiento_id \in Identificadores :
        /\ Verdadero(mantenimiento_id) =>
               Len(clasificaciones_automaticas) + 2 <= MaxRegistros
        /\ AnalizarMantenimientoCompleto(descripcion, mantenimiento_id)
        /\ Quietos

Next ==
    \/ Analizar
    \/ CargarPalabrasClaveRepuestos /\ Quietos
    \/ CargarPalabrasClaveTrabajos /\ Quietos
    \/ InvalidarCache /\ Quietos
    \/ CambiaFuente /\ Quietos
    \/ CambiaAuditoria /\ Quietos

Spec == Init /\ [][Next]_vars

\* SpecCache: one caller loads and invalidates on one engine instance and keeps
\* what every call handed back, while the application edits the spare-parts
\* taxonomy and the data source comes and goes.

\* Most calls the caller of SpecCache makes.
MaxObservados == 3

\* The keyword rows the application may add in SpecCache.
PalabrasNuevas == UNION TablasRepuestosMotor

\* agregar_palabra_categoria_impl of app.py: a keyword row appears in the source.
AgregarPalabra ==
    /\ \E fila \in PalabrasNuevas \ tabla_repuestos :
           tabla_repuestos' = tabla_repuestos \cup {fila}
    /\ UNCHANGED <<tabla_trabajos, fuente_disponible, auditoria_disponible,
                   clasificaciones_automaticas, motor, llamada, traza, resultado>>

\* api_categoria_individual DELETE of app.py: the category of that id is set
\* inactive in both taxonomies, and the queries (WHERE ... c.activo = 1) yield
\* none of its rows any more.
DesactivarCategoria ==
    /\ \E id \in {fila.categoria_id : fila \in tabla_repuestos \cup tabla_trabajos} :
           /\ tabla_repuestos' = {fila \in tabla_repuestos : fila.categoria_id # id}
           /\ tabla_trabajos' = {fila \in tabla_trabajos : fila.categoria_id # id}
    /\ UNCHANGED <<fuente_disponible, auditoria_disponible,
                   clasificaciones_automaticas, motor, llamada, traza, resultado>>

\* The caller keeps what the call just made handed back.
Observa ==
    /\ Len(observado) < MaxObservados
    /\ observado' = Append(observado, [op |-> llamada'.op, resultado |-> resultado'])
    /\ UNCHANGED hilos

CacheCargarRepuestos == CargarPalabrasClaveRepuestos /\ Observa

CacheCargarTrabajos == CargarPalabrasClaveTrabajos /\ Observa

CacheInvalidar == InvalidarCache /\ Observa

NextCache ==
    \/ CacheCargarRepuestos
    \/ CacheCargarTrabajos
    \/ CacheInvalidar
    \/ AgregarPalabra /\ Quietos
    \/ DesactivarCategoria /\ Quietos
    \/ CambiaFuente /\ Quietos

SpecCache == Init /\ [][NextCache]_vars

\* SpecHilos: threads share one engine instance. Every attribute read, every
\* attribute assignment and every round of a loop of the loader is a step of
\* its own, so calls interleave between any two of them, while the application
\* edits the taxonomy.

\* The threads.
Hilos == {"h1", "h2"}

\* A thread that is in no call.
Ocioso == [pc |-> "ocioso", op |-> "ninguna", tipo |-> "ninguno", leidas |-> <<>>, i |-> 0, palabras |-> <<>>, retorno |-> NULL]

\* self._cache_palabras_repuestos or self._cache_palabras_trabajos
CacheDe(m, tipo) ==
    IF tipo = "repuestos" THEN m.cache_palabras_repuestos ELSE m.cache_palabras_trabajos

\* The assignment of valor to that attribute.
ConCache(m, tipo, valor) ==
    IF tipo = "repuestos"
    THEN [m EXCEPT !.cache_palabras_repuestos = valor]
    ELSE [m EXCEPT !.cache_palabras_trabajos = valor]

\* What the query of that kind yields.
ConsultaDe(tipo) ==
    IF tipo = "repuestos" THEN Consulta(tabla_repuestos) ELSE Consulta(tabla_trabajos)

\* One round of the loop of lines 99-109 or 141-152.
AnexarFila(tipo, palabras, row) ==
    Anexar(palabras, normalizar_texto(row.palabra),
           IF tipo = "repuestos" THEN DatoRepuesto(row) ELSE DatoTrabajo(row))

\* The mapping the rows of one query give.
PalabrasDe(tipo, filas) ==
    IF tipo = "repuestos" THEN PalabrasRepuestos(filas) ELSE PalabrasTrabajos(filas)

\* A mutant of CacheTrasFila: the loop fills the cache attribute itself.
CacheTrasFila_publica(m, tipo, palabras) == ConCache(m, tipo, Algun(palabras))

\* The engine after a round of the loop of lines 99-109: the loop fills the
\* local palabras and assigns no attribute.
CacheTrasFila(m, tipo, palabras) == m

\* The frame of a step of a thread.
SoloHilos ==
    UNCHANGED <<tabla_repuestos, tabla_trabajos, fuente_disponible, auditoria_disponible,
                clasificaciones_automaticas, llamada, traza, resultado, observado>>

\* A thread calls cargar_palabras_clave_repuestos or cargar_palabras_clave_trabajos,
\* or detectar_repuestos, whose line 163 is that call.
Llama(h) ==
    /\ hilos[h].pc = "ocioso"
    /\ \E op \in {"cargar_palabras_clave_repuestos", "cargar_palabras_clave_trabajos",
                  "detectar_repuestos"} :
           hilos' = [hilos EXCEPT ![h] =
                        [Ocioso EXCEPT !.pc = "l76", !.op = op,
                                       !.tipo = IF op = "cargar_palabras_clave_trabajos"
                                                THEN "trabajos" ELSE "repuestos"]]
    /\ UNCHANGED motor
    /\ SoloHilos

\* A thread calls invalidar_cache.
LlamaInvalidar(h) ==
    /\ hilos[h].pc = "ocioso"
    /\ hilos' = [hilos EXCEPT ![h] = [Ocioso EXCEPT !.pc = "l391", !.op = "invalidar_cache"]]
    /\ UNCHANGED motor
    /\ SoloHilos

\* Line 76 (117): the test of the cache attribute.
L76(h) ==
    /\ hilos[h].pc = "l76"
    /\ hilos' = [hilos EXCEPT ![h].pc =
                    IF CacheDe(motor, hilos[h].tipo) # NULL THEN "l77" ELSE "l99"]
    /\ UNCHANGED motor
    /\ SoloHilos

\* Where the thread goes with what the loader returned: back to its caller, or
\* on to line 165 of detectar_repuestos. The attribute holds None when unset.
Retorna(h) ==
    hilos' = [hilos EXCEPT ![h].retorno = Algun(CacheDe(motor, hilos[h].tipo)),
                           ![h].pc = IF hilos[h].op = "detectar_repuestos"
                                     THEN "l169" ELSE "ocioso"]

\* Line 77 (118): the attribute is read again and returned.
L77(h) ==
    /\ hilos[h].pc = "l77"
    /\ Retorna(h)
    /\ UNCHANGED motor
    /\ SoloHilos

\* Line 99 (141): the query is executed; it raises when the source cannot be read.
L99(h) ==
    /\ hilos[h].pc = "l99"
    /\ IF fuente_disponible
       THEN \E filas \in ConsultaDe(hilos[h].tipo) :
                hilos' = [hilos EXCEPT ![h].leidas = filas, ![h].i = 0,
                                       ![h].palabras = <<>>, ![h].pc = "l100"]
       ELSE hilos' = [hilos EXCEPT ![h].pc = "ocioso",
                                   ![h].retorno = Algun(Error("OperationalError"))]
    /\ UNCHANGED motor
    /\ SoloHilos

\* Lines 100-109 (142-152): one row is added to the local palabras.
L100(h) ==
    /\ hilos[h].pc = "l100"
    /\ hilos[h].i < Len(hilos[h].leidas)
    /\ hilos' = [hilos EXCEPT ![h].i = @ + 1,
                              ![h].palabras = AnexarFila(hilos[h].tipo, @,
                                                         hilos[h].leidas[hilos[h].i + 1])]
    /\ motor' = CacheTrasFila(motor, hilos[h].tipo, hilos'[h].palabras)
    /\ SoloHilos

\* Line 112 (155): after the last row, the attribute is assigned dict(palabras).
L112(h) ==
    /\ hilos[h].pc = "l100"
    /\ hilos[h].i = Len(hilos[h].leidas)
    /\ motor' = ConCache(motor, hilos[h].tipo, Algun(hilos[h].palabras))
    /\ hilos' = [hilos EXCEPT ![h].pc = "l113"]
    /\ SoloHilos

\* Line 113 (156): the attribute is read again and returned.
L113(h) ==
    /\ hilos[h].pc = "l113"
    /\ Retorna(h)
    /\ UNCHANGED motor
    /\ SoloHilos

\* The text the threads of SpecHilos classify.
TextoHilos == <<"c", "d">>

\* Lines 165-223 of detectar_repuestos on what line 163 was handed: .items() of
\* None raises.
L169(h) ==
    /\ hilos[h].pc = "l169"
    /\ hilos' = [hilos EXCEPT ![h].pc = "ocioso",
                    ![h].retorno =
                        IF hilos[h].retorno[1] = NULL
                        THEN Algun(Error("AttributeError"))
                        ELSE Algun(Ok(Resolver(TextoHilos, normalizar_texto(TextoHilos),
                                      CandidatosRepuestos(
                                          Coincidencias(hilos[h].retorno[1][1],
                                                        normalizar_texto(TextoHilos)),
                                          normalizar_texto(TextoHilos), UmbralPorDefecto))))]
    /\ UNCHANGED motor
    /\ SoloHilos

\* Lines 391 and 392 of invalidar_cache, one assignment a step.
L391(h) ==
    /\ hilos[h].pc = "l391"
    /\ motor' = [motor EXCEPT !.cache_palabras_repuestos = NULL]
    /\ hilos' = [hilos EXCEPT ![h].pc = "l392"]
    /\ SoloHilos

L392(h) ==
    /\ hilos[h].pc = "l392"
    /\ motor' = [motor EXCEPT !.cache_palabras_trabajos = NULL]
    /\ hilos' = [hilos EXCEPT ![h].pc = "l393"]
    /\ SoloHilos

\* Lines 393 and 394: the two category caches, which nothing reads.
L393(h) ==
    /\ hilos[h].pc = "l393"
    /\ motor' = [motor EXCEPT !.cache_categorias_repuestos = NULL,
                              !.cache_categorias_trabajos = NULL]
    /\ hilos' = [hilos EXCEPT ![h].pc = "ocioso"]
    /\ SoloHilos

InitHilos ==
    /\ fuente_disponible = TRUE
    /\ auditoria_disponible = TRUE
    /\ clasificaciones_automaticas = <<>>
    /\ motor = MotorNuevo
    /\ traza = <<>>
    /\ observado = <<>>
    /\ tabla_repuestos \in TablasRepuestosMotor
    /\ tabla_trabajos \in TablasTrabajosMotor
    /\ llamada = No_llamada
    /\ resultado = Sin_resultado
    /\ hilos = [h \in Hilos |-> Ocioso]

NextHilos ==
    \/ \E h \in Hilos : Llama(h)
    \/ \E h \in Hilos : LlamaInvalidar(h)
    \/ \E h \in Hilos : L76(h)
    \/ \E h \in Hilos : L77(h)
    \/ \E h \in Hilos : L99(h)
    \/ \E h \in Hilos : L100(h)
    \/ \E h \in Hilos : L112(h)
    \/ \E h \in Hilos : L113(h)
    \/ \E h \in Hilos : L169(h)
    \/ \E h \in Hilos : L391(h)
    \/ \E h \in Hilos : L392(h)
    \/ \E h \in Hilos : L393(h)
    \/ AgregarPalabra /\ UNCHANGED <<observado, hilos>>
    \/ DesactivarCategoria /\ UNCHANGED <<observado, hilos>>

SpecHilos == InitHilos /\ [][NextHilos]_vars

\* SpecRecarga: the threads of SpecHilos, with a note in observado of the
\* states the data source has had since the last return of invalidar_cache.

\* The note: the values of the two tables since that return.
DesdeInvalidar(repuestos, trabajos) ==
    <<[op |-> "invalidar_cache", tablas_repuestos |-> repuestos,
       tablas_trabajos |-> trabajos]>>

\* Lines 393 and 394, after which invalidar_cache returns: the note starts
\* anew with the data source as it is.
L393Retorna(h) ==
    /\ hilos[h].pc = "l393"
    /\ motor' = [motor EXCEPT !.cache_categorias_repuestos = NULL,
                              !.cache_categorias_trabajos = NULL]
    /\ hilos' = [hilos EXCEPT ![h].pc = "ocioso"]
    /\ observado' = DesdeInvalidar({tabla_repuestos}, {tabla_trabajos})
    /\ UNCHANGED <<tabla_repuestos, tabla_trabajos, fuente_disponible, auditoria_disponible,
                   clasificaciones_automaticas, llamada, traza, resultado>>

\* An edit of the taxonomy is added to the note.
AnotaFuente ==
    /\ observado' = IF observado = <<>> THEN <<>>
                    ELSE DesdeInvalidar(observado[1].tablas_repuestos \cup {tabla_repuestos'},
                                        observado[1].tablas_trabajos \cup {tabla_trabajos'})
    /\ UNCHANGED hilos

\* One keyword of parts and none of labor at the start; the application adds
\* the second keyword of parts.
InitRecarga ==
    /\ InitHilos
    /\ Cardinality(tabla_repuestos) = 1
    /\ tabla_trabajos = {}

NextRecarga ==
    \/ \E h \in Hilos : Llama(h)
    \/ \E h \in Hilos : LlamaInvalidar(h)
    \/ \E h \in Hilos : L76(h)
    \/ \E h \in Hilos : L77(h)
    \/ \E h \in Hilos : L99(h)
    \/ \E h \in Hilos : L100(h)
    \/ \E h \in Hilos : L112(h)
    \/ \E h \in Hilos : L113(h)
    \/ \E h \in Hilos : L169(h)
    \/ \E h \in Hilos : L391(h)
    \/ \E h \in Hilos : L392(h)
    \/ \E h \in Hilos : L393Retorna(h)
    \/ AgregarPalabra /\ AnotaFuente

SpecRecarga == InitRecarga /\ [][NextRecarga]_vars

\* SpecRegistro: calls of every operation on one engine instance, one after the
\* other, on a spare-parts taxonomy in which one keyword belongs to six
\* categories, while the audit store comes and goes.

\* Six root categories share the keyword "cd", each with a weight of its own, so
\* the query yields them in one order and a text with "cd" has six matches.
TablaSeis ==
    {FilaRepuesto(<<"c", "d">>, 6, FALSE, NULL, 1, "Filtros", NULL, "#3498db"),
     FilaRepuesto(<<"c", "d">>, 8, FALSE, NULL, 2, "Bombas", NULL, "#e74c3c"),
     FilaRepuesto(<<"c", "d">>, 10, FALSE, NULL, 3, "Correas", NULL, "#2ecc71"),
     FilaRepuesto(<<"c", "d">>, 12, FALSE, NULL, 4, "Mangueras", NULL, "#f39c12"),
     FilaRepuesto(<<"c", "d">>, 14, FALSE, NULL, 5, "Rodamientos", NULL, "#9b59b6"),
     FilaRepuesto(<<"c", "d">>, 16, FALSE, NULL, 6, "Sellos", NULL, "#1abc9c")}

\* The descriptions given to analyze in SpecRegistro: "", "cd" and "Trabajo cd".
DescripcionesRegistro ==
    {<<>>, <<"c", "d">>, <<"T", "r", "a", "b", "a", "j", "o", " ", "c", "d">>}

InitRegistro ==
    /\ Construido
    /\ tabla_repuestos = TablaSeis
    /\ tabla_trabajos \in TablasTrabajosMotor
    /\ llamada = No_llamada
    /\ resultado = Sin_resultado

RegAnalizar ==
    \E descripcion \in DescripcionesRegistro, mantenimiento_id \in Identificadores :
        /\ Verdadero(mantenimiento_id) =>
               Len(clasificaciones_automaticas) + 2 <= MaxRegistros
        /\ AnalizarMantenimientoCompleto(descripcion, mantenimiento_id)
        /\ Quietos

RegDetectarRepuestos == DetectarRepuestos(<<"c", "d">>, UmbralPorDefecto) /\ Quietos

RegDetectarTrabajos == DetectarTrabajos(<<"c", "d">>, UmbralPorDefecto) /\ Quietos

\* The caller records the detection its last call of the classifier returned.
RegGuardar ==
    /\ llamada.op \in {"detectar_repuestos", "detectar_trabajos"}
    /\ resultado.tipo = "ok"
    /\ Len(clasificaciones_automaticas) < MaxRegistros
    /\ \E mantenimiento_id \in {1, 2} :
           GuardarClasificacion(mantenimiento_id, resultado.valor,
                                IF llamada.op = "detectar_repuestos" THEN "repuesto" ELSE "trabajo")
    /\ Quietos

NextRegistro ==
    \/ RegAnalizar
    \/ RegDetectarRepuestos
    \/ RegDetectarTrabajos
    \/ RegGuardar
    \/ CargarPalabrasClaveRepuestos /\ Quietos
    \/ CargarPalabrasClaveTrabajos /\ Quietos
    \/ InvalidarCache /\ Quietos
    \/ CambiaAuditoria /\ Quietos

SpecRegistro == InitRegistro /\ [][NextRegistro]_vars

\* SpecReparto: analyze on descriptions of several segments, with a taxonomy
\* of each kind that holds the keywords "cd", "dc" and "c d".
TablaRepartoRepuestos ==
    {FilaRepuesto(<<"c", "d">>, 10, FALSE, NULL, 1, "Filtros", NULL, "#3498db"),
     FilaRepuesto(<<"d", "c">>, 9, FALSE, NULL, 2, "Bombas", NULL, "#e74c3c"),
     FilaRepuesto(<<"c", " ", "d">>, 8, FALSE, NULL, 3, "Correas", NULL, "#2ecc71")}

TablaRepartoTrabajos ==
    {FilaTrabajo(<<"c", "d">>, 10, FALSE, NULL, 1, "Mantenimiento General", NULL, "#27ae60", Algun(1)),
     FilaTrabajo(<<"d", "c">>, 9, FALSE, NULL, 2, "Soldadura", NULL, "#d35400", Algun(3)),
     FilaTrabajo(<<"c", " ", "d">>, 8, FALSE, NULL, 3, "Pintura", NULL, "#8e44ad", Algun(2))}

\* The descriptions given to analyze in SpecReparto: "Repuesto cd|Trabajo dc",
\* "TRABAjo cd|repuesto dc", "cd|Repuesto dc", "Repuesto c d|Trabajo c|d" and
\* "Trabajo c d|Repuesto c|d".
DescripcionesReparto ==
    {<<"R", "e", "p", "u", "e", "s", "t", "o", " ", "c", "d", "|",
       "T", "r", "a", "b", "a", "j", "o", " ", "d", "c">>,
     <<"T", "R", "A", "B", "A", "j", "o", " ", "c", "d", "|",
       "r", "e", "p", "u", "e", "s", "t", "o", " ", "d", "c">>,
     <<"c", "d", "|", "R", "e", "p", "u", "e", "s", "t", "o", " ", "d", "c">>,
     <<"R", "e", "p", "u", "e", "s", "t", "o", " ", "c", " ", "d", "|",
       "T", "r", "a", "b", "a", "j", "o", " ", "c", "|", "d">>,
     <<"T", "r", "a", "b", "a", "j", "o", " ", "c", " ", "d", "|",
       "R", "e", "p", "u", "e", "s", "t", "o", " ", "c", "|", "d">>}

InitReparto ==
    /\ Construido
    /\ tabla_repuestos \in {TablaRepartoRepuestos, {}}
    /\ tabla_trabajos \in {TablaRepartoTrabajos, {}}
    /\ llamada = No_llamada
    /\ resultado = Sin_resultado

RepAnalizar ==
    \E descripcion \in DescripcionesReparto, mantenimiento_id \in Identificadores :
        /\ Verdadero(mantenimiento_id) =>
               Len(clasificaciones_automaticas) + 2 <= MaxRegistros
        /\ AnalizarMantenimientoCompleto(descripcion, mantenimiento_id)
        /\ Quietos

NextReparto ==
    \/ RepAnalizar
    \/ InvalidarCache /\ Quietos
    \/ CambiaFuente /\ Quietos

SpecReparto == InitReparto /\ [][NextReparto]_vars

\* SpecEscenario: analyze on the first example of test_motor, with a taxonomy
\* of each kind that holds one keyword of weight 1.0 in a root category.
TablaEscenarioRepuestos ==
    {FilaRepuesto(<<"f", "i", "l", "t", "r", "o">>, 10, FALSE, NULL, 1, "Filtros", NULL, "#3498db")}

TablaEscenarioTrabajos ==
    {FilaTrabajo(<<"s", "e", "r", "v", "i", "c", "e">>, 10, FALSE, NULL, 1, "Mantenimiento General", NULL, "#27ae60", Algun(1))}

\* "Repuestos: 1 filtro de aceite, 2 litros aceite hidraulico | Trabajo realizado: Service general completo"
EscenarioA ==
    <<"R", "e", "p", "u", "e", "s", "t", "o", "s", ":", " ", "1", " ", "f", "i", "l",
      "t", "r", "o", " ", "d", "e", " ", "a", "c", "e", "i", "t", "e", ",", " ", "2",
      " ", "l", "i", "t", "r", "o", "s", " ", "a", "c", "e", "i", "t", "e", " ", "h",
      "i", "d", "r", "a", "u", "l", "i", "c", "o", " ", "|", " ", "T", "r", "a", "b",
      "a", "j", "o", " ", "r", "e", "a", "l", "i", "z", "a", "d", "o", ":", " ", "S",
      "e", "r", "v", "i", "c", "e", " ", "g", "e", "n", "e", "r", "a", "l", " ", "c",
      "o", "m", "p", "l", "e", "t", "o">>

\* The descriptions given to analyze in SpecEscenario: the example, each of
\* its two segments alone, and "".
DescripcionesEscenario ==
    {EscenarioA, split(EscenarioA)[1], split(EscenarioA)[2], <<>>}

InitEscenario ==
    /\ Construido
    /\ tabla_repuestos = TablaEscenarioRepuestos
    /\ tabla_trabajos = TablaEscenarioTrabajos
    /\ llamada = No_llamada
    /\ resultado = Sin_resultado

EscAnalizar ==
    \E descripcion \in DescripcionesEscenario, mantenimiento_id \in Identificadores :
        /\ Verdadero(mantenimiento_id) =>
               Len(clasificaciones_automaticas) + 2 <= MaxRegistros
        /\ AnalizarMantenimientoCompleto(descripcion, mantenimiento_id)
        /\ Quietos

NextEscenario ==
    \/ EscAnalizar
    \/ InvalidarCache /\ Quietos
    \/ CambiaFuente /\ Quietos
    \/ CambiaAuditoria /\ Quietos

SpecEscenario == InitEscenario /\ [][NextEscenario]_vars

\* SpecConfianza: calls of the two classifiers with each threshold and of
\* analyze, on the table of six categories, whose heaviest keyword scores
\* above 1.0 before the cap, or on a table of three keywords of one category.
\* Three keywords of one category: in the text "cd" the entries of "d" and of
\* "cd" score the same, 0.675, and the entry of "c" scores 0.45.
TablaEmpate ==
    {FilaRepuesto(<<"d">>, 15, FALSE, NULL, 1, "Filtros", NULL, "#3498db"),
     FilaRepuesto(<<"c", "d">>, 10, FALSE, NULL, 1, "Filtros", NULL, "#3498db"),
     FilaRepuesto(<<"c">>, 10, FALSE, NULL, 1, "Filtros", NULL, "#3498db")}

InitConfianza ==
    /\ Construido
    /\ tabla_repuestos \in {TablaSeis, TablaEmpate}
    /\ tabla_trabajos \in TablasTrabajosMotor
    /\ llamada = No_llamada
    /\ resultado = Sin_resultado

ConDetectarRepuestos ==
    \E texto \in {<<"c", "d">>, <<"a", "c", "d">>}, umbral \in Umbrales :
        DetectarRepuestos(texto, umbral) /\ Quietos

ConDetectarTrabajos ==
    \E texto \in {<<"c", "d">>, <<"a", "c", "d">>}, umbral \in Umbrales :
        DetectarTrabajos(texto, umbral) /\ Quietos

ConAnalizar ==
    \E descripcion \in DescripcionesRegistro :
        AnalizarMantenimientoCompleto(descripcion, NULL) /\ Quietos

NextConfianza ==
    \/ ConDetectarRepuestos
    \/ ConDetectarTrabajos
    \/ ConAnalizar
    \/ InvalidarCache /\ Quietos
    \/ CambiaFuente /\ Quietos

SpecConfianza == InitConfianza /\ [][NextConfianza]_vars

\* SpecPuro: calls of the two classifiers on one engine while keywords are
\* added, categories set inactive and the cache invalidated. The caller keeps, of each call, the text, the threshold, the
\* taxonomy mapping the call worked on and what it returned, of at most
\* MaxClasificaciones calls.
MaxClasificaciones == 2

ObservaClasificacion ==
    /\ Len(observado) < MaxClasificaciones
    /\ observado' = Append(observado,
                           [op |-> llamada'.op,
                            texto |-> llamada'.texto,
                            umbral_confianza |-> llamada'.umbral_confianza,
                            palabras_clave |-> IF llamada'.op = "detectar_repuestos"
                                               THEN motor'.cache_palabras_repuestos
                                               ELSE motor'.cache_palabras_trabajos,
                            resultado |-> resultado'])
    /\ UNCHANGED hilos

PuroDetectarRepuestos ==
    \E umbral \in {0, UmbralPorDefecto} :
        DetectarRepuestos(<<"c", "d">>, umbral) /\ ObservaClasificacion

PuroDetectarTrabajos ==
    \E umbral \in {0, UmbralPorDefecto} :
        DetectarTrabajos(<<"c", "d">>, umbral) /\ ObservaClasificacion

NextPuro ==
    \/ PuroDetectarRepuestos
    \/ PuroDetectarTrabajos
    \/ AgregarPalabra /\ Quietos
    \/ DesactivarCategoria /\ Quietos
    \/ InvalidarCache /\ Quietos
    \/ CambiaFuente /\ Quietos

SpecPuro == Init /\ [][NextPuro]_vars

\* -------------------------------------------------------------- claims

\* C2 (as stated): normalizar_texto is idempotent: normalising what it returned
\* gives the same string back.
C2_Idempotente ==
    (llamada.op = "normalizar_texto" /\ resultado.tipo = "ok")
        => normalizar_texto(resultado.valor) = resultado.valor

\* The classifier returned a DeteccionCompleta.
Detecto ==
    /\ llamada.op \in {"detectar_repuestos", "detectar_trabajos"}
    /\ resultado.tipo = "ok"

\* The mapping that call read: the cache of its kind.
PalabrasClave ==
    IF llamada.op = "detectar_repuestos"
    THEN motor.cache_palabras_repuestos[1]
    ELSE motor.cache_palabras_trabajos[1]

\* The entries that call scored, in the order of the loops.
Puntuadas ==
    Coincidencias(PalabrasClave, normalizar_texto(llamada.texto))

PuntajeDe(c) ==
    IF llamada.op = "detectar_repuestos"
    THEN puntaje_repuesto(c.dato, c.palabra_norm, normalizar_texto(llamada.texto))
    ELSE puntaje_trabajo(c.dato, c.palabra_norm, normalizar_texto(llamada.texto))

ConfianzaDe(c) == Acotar(PuntajeDe(c))

\* Two scored entries that differ in nothing the score reads but the parent:
\* c1 of a root category, c2 of a leaf category.
RaizYHoja(c1, c2) ==
    /\ c1.dato.categoria_padre = NULL
    /\ c2.dato.categoria_padre # NULL
    /\ c1.dato.peso = c2.dato.peso
    /\ c1.dato.es_sinonimo = c2.dato.es_sinonimo
    /\ CoincidePalabraCompleta(c1.palabra_norm, normalizar_texto(llamada.texto))
         = CoincidePalabraCompleta(c2.palabra_norm, normalizar_texto(llamada.texto))
    /\ llamada.op = "detectar_trabajos" =>
         (c1.dato.complejidad[1] >= 3) = (c2.dato.complejidad[1] >= 3)

\* The classifier of that call run again on the same mapping with another threshold.
OtraVez(umbral) ==
    IF llamada.op = "detectar_repuestos"
    THEN detectar_repuestos(motor, TRUE, <<>>, llamada.texto, umbral).resultado.valor
    ELSE detectar_trabajos(motor, TRUE, <<>>, llamada.texto, umbral).resultado.valor

\* C3 (as stated): a root category's entry is multiplied by 1.1 and a leaf
\* category's by 0.9, so with everything else equal the root entry never scores
\* lower than the leaf entry.
C3_RaizNuncaMenor ==
    Detecto =>
        \A i, j \in 1..Len(Puntuadas) :
            RaizYHoja(Puntuadas[i], Puntuadas[j]) =>
                /\ PuntajeDe(Puntuadas[i]) * 9 = PuntajeDe(Puntuadas[j]) * 11
                /\ ConfianzaDe(Puntuadas[i]) >= ConfianzaDe(Puntuadas[j])

\* C3 (amended): a root category's entry is multiplied by 0.9 and a leaf
\* category's by 1.1, so with everything else equal the root entry never scores
\* higher than the leaf entry.
C3_RaizNuncaMayor ==
    Detecto =>
        \A i, j \in 1..Len(Puntuadas) :
            RaizYHoja(Puntuadas[i], Puntuadas[j]) =>
                /\ PuntajeDe(Puntuadas[i]) * 11 = PuntajeDe(Puntuadas[j]) * 9
                /\ ConfianzaDe(Puntuadas[i]) <= ConfianzaDe(Puntuadas[j])

\* A root and a leaf entry, equal otherwise, were scored and the leaf scored higher.
C3_Testigo ==
    /\ Detecto
    /\ \E i, j \in 1..Len(Puntuadas) :
           /\ RaizYHoja(Puntuadas[i], Puntuadas[j])
           /\ ConfianzaDe(Puntuadas[i]) < ConfianzaDe(Puntuadas[j])

\* C4: the match list the classifier returns never holds two matches with the
\* same category name.
C4_CategoriasUnicas ==
    Detecto =>
        LET cl == resultado.valor.clasificaciones
        IN \A i, j \in 1..Len(cl) : i # j => cl[i].categoria # cl[j].categoria

\* Two entries of one category reached the threshold in that call.
C4_Testigo ==
    /\ Detecto
    /\ \E i, j \in 1..Len(Puntuadas) :
           /\ i # j
           /\ Puntuadas[i].dato.categoria_nombre = Puntuadas[j].dato.categoria_nombre
           /\ ConfianzaDe(Puntuadas[i]) >= llamada.umbral_confianza
           /\ ConfianzaDe(Puntuadas[j]) >= llamada.umbral_confianza

\* C5: in the match list the classifier returns every match has a confidence
\* greater than or equal to that of the match after it.
C5_OrdenDescendente ==
    Detecto =>
        LET cl == resultado.valor.clasificaciones
        IN \A i \in 1..(Len(cl) - 1) : cl[i].confianza >= cl[i + 1].confianza

\* Two categories matched, and the loops met the weaker one first.
C5_Testigo ==
    /\ Detecto
    /\ Len(resultado.valor.clasificaciones) >= 2
    /\ \E i, j \in 1..Len(Puntuadas) :
           /\ i < j
           /\ Puntuadas[i].dato.categoria_nombre # Puntuadas[j].dato.categoria_nombre
           /\ ConfianzaDe(Puntuadas[i]) >= llamada.umbral_confianza
           /\ ConfianzaDe(Puntuadas[i]) < ConfianzaDe(Puntuadas[j])

\* C6: on the same text and the same mapping, a threshold at least as high never
\* gives more matches, and one at most as high never gives fewer.
C6_UmbralMonotono ==
    Detecto =>
        \A umbral \in Umbrales :
            /\ umbral >= llamada.umbral_confianza =>
                   Len(OtraVez(umbral).clasificaciones)
                       <= Len(resultado.valor.clasificaciones)
            /\ umbral <= llamada.umbral_confianza =>
                   Len(OtraVez(umbral).clasificaciones)
                       >= Len(resultado.valor.clasificaciones)

\* A higher threshold gives strictly fewer matches than that call returned.
C6_Testigo ==
    /\ Detecto
    /\ \E umbral \in Umbrales :
           /\ umbral > llamada.umbral_confianza
           /\ Len(OtraVez(umbral).clasificaciones) >= 1
           /\ Len(OtraVez(umbral).clasificaciones) < Len(resultado.valor.clasificaciones)

\* C7: the best match is the first of the ranked list, or absent when the list
\* is empty, and the overall confidence is the best match's, or 0.0.
C7_MejorEsPrimera ==
    Detecto =>
        LET d == resultado.valor
        IN IF d.clasificaciones = <<>>
           THEN d.mejor_clasificacion = NULL /\ d.confianza_total = 0
           ELSE /\ d.mejor_clasificacion = Algun(d.clasificaciones[1])
                /\ d.confianza_total = d.clasificaciones[1].confianza

\* Several matches of different confidence were returned.
C7_Testigo ==
    /\ Detecto
    /\ Len(resultado.valor.clasificaciones) >= 2
    /\ resultado.valor.clasificaciones[1].confianza
         > resultado.valor.clasificaciones[Len(resultado.valor.clasificaciones)].confianza

\* C8 (as stated): on an empty text or a text of whitespace only the classifier
\* returns an empty match list, no best match and confidence 0.0, whatever the
\* keywords of the taxonomy are.
C8_TextoVacioSinCoincidencias ==
    (/\ llamada.op \in {"detectar_repuestos", "detectar_trabajos"}
     /\ resultado.tipo # "pendiente"
     /\ llamada.texto # None
     /\ \A i \in 1..Len(llamada.texto) : EsEspacio(llamada.texto[i]))
        => /\ resultado.tipo = "ok"
           /\ resultado.valor.clasificaciones = <<>>
           /\ resultado.valor.mejor_clasificacion = NULL
           /\ resultado.valor.confianza_total = 0

\* An INSERT of the recorder failed in that call.
FalloInsert(t) == \E i \in 1..Len(t) : t[i].sentencia = "INSERT" /\ ~t[i].ok

\* A SELECT of the taxonomy loader failed in that call.
FalloSelect(t, tabla) == \E i \in 1..Len(t) : t[i] = Select(tabla, FALSE)

\* C1 (as stated): when the recorder's INSERT fails, analyze still returns, and
\* returns the report it returns for the same description and the same mappings
\* when no identifier is given.
C1_FalloDeRegistroNoAborta ==
    (llamada.op = "analizar_mantenimiento_completo" /\ FalloInsert(traza))
        => /\ resultado.tipo = "ok"
           /\ resultado = analizar_mantenimiento_completo(
                              motor, clasificaciones_automaticas, TRUE, TRUE, <<>>, <<>>,
                              llamada.descripcion, NULL).resultado

\* C9: analyze of an empty or null description, with or without an identifier,
\* returns the report with empty lists and zero confidences, issues no statement
\* on the data source, and leaves the caches and the audit store as they were.
C9_DescripcionVacia ==
    [][(/\ llamada'.op = "analizar_mantenimiento_completo"
        /\ (llamada'.descripcion = None \/ llamada'.descripcion = <<>>))
          => /\ resultado'.tipo = "ok"
             /\ resultado'.valor.repuestos = <<>>
             /\ resultado'.valor.trabajos = <<>>
             /\ resultado'.valor.confianza_repuestos = 0
             /\ resultado'.valor.confianza_trabajos = 0
             /\ traza' = <<>>
             /\ motor' = motor
             /\ clasificaciones_automaticas' = clasificaciones_automaticas]_vars

\* analyze was given no description and an identifier, on an engine that has
\* loaded nothing and a source that would have answered.
C9_Testigo ==
    /\ llamada.op = "analizar_mantenimiento_completo"
    /\ llamada.descripcion = <<>>
    /\ Verdadero(llamada.mantenimiento_id)
    /\ motor.cache_palabras_repuestos = NULL
    /\ fuente_disponible
    /\ resultado = Ok(InformeVacio)

\* C10: when a taxonomy cannot be read while analyze loads it, analyze raises,
\* appends nothing to the audit store in that call, and leaves the cache of the
\* kind that failed unset.
C10_FuenteIlegible ==
    [][(/\ llamada'.op = "analizar_mantenimiento_completo"
        /\ (\/ FalloSelect(traza', "palabras_clave_repuestos")
            \/ FalloSelect(traza', "palabras_clave_trabajos")))
          => /\ resultado'.tipo = "error"
             /\ clasificaciones_automaticas' = clasificaciones_automaticas
             /\ FalloSelect(traza', "palabras_clave_repuestos") =>
                    motor'.cache_palabras_repuestos = NULL
             /\ FalloSelect(traza', "palabras_clave_trabajos") =>
                    motor'.cache_palabras_trabajos = NULL]_vars

\* analyze was given a description and an identifier, had the spare-parts
\* mapping, and could not read the labor taxonomy.
C10_Testigo ==
    /\ llamada.op = "analizar_mantenimiento_completo"
    /\ Verdadero(llamada.mantenimiento_id)
    /\ traza = <<Select("palabras_clave_trabajos", FALSE)>>
    /\ motor.cache_palabras_repuestos # NULL
    /\ motor.cache_palabras_trabajos = NULL
    /\ resultado.tipo = "error"

\* What the caller was handed by its i-th call is a mapping a load returned.
CargaCorrecta(i) ==
    /\ observado[i].op \in {"cargar_palabras_clave_repuestos", "cargar_palabras_clave_trabajos"}
    /\ observado[i].resultado.tipo = "ok"

\* The caller did not invalidate between its i-th and its j-th call.
SinInvalidarEntre(i, j) ==
    \A k \in (i + 1)..(j - 1) : observado[k].op # "invalidar_cache"

\* The mappings the rows of a taxonomy table give, one for every order the
\* query may yield them in.
MapasRepuestos(tabla) == {PalabrasRepuestos(filas) : filas \in Consulta(tabla)}

MapasTrabajos(tabla) == {PalabrasTrabajos(filas) : filas \in Consulta(tabla)}

\* C11: after a successful load of a kind and until invalidar_cache is called,
\* every later load of that kind returns the mapping the first one returned,
\* whatever happened to the data source in between; invalidar_cache unsets the
\* caches of both kinds.
C11_CacheHastaInvalidar ==
    /\ \A i, j \in 1..Len(observado) :
           (/\ i < j
            /\ CargaCorrecta(i)
            /\ observado[j].op = observado[i].op
            /\ SinInvalidarEntre(i, j))
               => observado[j].resultado = observado[i].resultado
    /\ (observado # <<>> /\ observado[Len(observado)].op = "invalidar_cache")
           => /\ motor.cache_palabras_repuestos = NULL
              /\ motor.cache_palabras_trabajos = NULL

\* The spare-parts mapping was loaded, the source was edited so that it gives
\* another mapping, and a second load, with no statement on the source, returned
\* the first mapping again.
C11_Testigo ==
    /\ Len(observado) >= 2
    /\ observado[1].op = "cargar_palabras_clave_repuestos"
    /\ observado[1].resultado.tipo = "ok"
    /\ observado[2] = observado[1]
    /\ llamada.op = "cargar_palabras_clave_repuestos"
    /\ traza = <<>>
    /\ fuente_disponible
    /\ observado[1].resultado.valor \notin MapasRepuestos(tabla_repuestos)

\* The caller's last call was invalidar_cache.
RecienInvalidado ==
    /\ observado # <<>>
    /\ observado[Len(observado)].op = "invalidar_cache"

\* C12: a load that follows invalidar_cache returns the mapping built from the
\* data source as it is at the time of that load, so an entry added since the
\* first load is in it.
C12_RecargaTrasInvalidar ==
    [][(/\ RecienInvalidado
        /\ resultado'.tipo = "ok")
          => /\ llamada'.op = "cargar_palabras_clave_repuestos" =>
                    /\ resultado'.valor \in MapasRepuestos(tabla_repuestos)
                    /\ motor'.cache_palabras_repuestos = Algun(resultado'.valor)
             /\ llamada'.op = "cargar_palabras_clave_trabajos" =>
                    /\ resultado'.valor \in MapasTrabajos(tabla_trabajos)
                    /\ motor'.cache_palabras_trabajos = Algun(resultado'.valor)]_vars

\* The keys of a mapping.
Claves(palabras) == {palabras[i].palabra_norm : i \in 1..Len(palabras)}

\* The spare-parts mapping was loaded, a keyword was added to the source, and
\* after invalidar_cache a second load returned a mapping with the added key.
C12_Testigo ==
    /\ Len(observado) = 3
    /\ observado[1].op = "cargar_palabras_clave_repuestos"
    /\ observado[1].resultado.tipo = "ok"
    /\ observado[2].op = "invalidar_cache"
    /\ observado[3].op = "cargar_palabras_clave_repuestos"
    /\ observado[3].resultado.tipo = "ok"
    /\ Claves(observado[1].resultado.valor) # Claves(observado[3].resultado.valor)
    /\ Claves(observado[1].resultado.valor) \subseteq Claves(observado[3].resultado.valor)
    /\ observado[3].resultado.valor \in MapasRepuestos(tabla_repuestos)

\* C13: under every interleaving of the threads' loads, invalidations and
\* classifications, an assignment to the cache of a kind either unsets it or
\* gives it the complete mapping of all the rows that one query of the
\* assigning thread yielded, and a thread that reads the cache is handed exactly
\* what the cache holds: no reader obtains a partly filled mapping.
C13_CacheCompleto ==
    [][/\ \A tipo \in {"repuestos", "trabajos"} :
              CacheDe(motor', tipo) # CacheDe(motor, tipo) =>
                  \/ CacheDe(motor', tipo) = NULL
                  \/ \E h \in Hilos :
                         /\ hilos[h].pc = "l100"
                         /\ hilos[h].tipo = tipo
                         /\ hilos'[h].pc = "l113"
                         /\ CacheDe(motor', tipo) = Algun(PalabrasDe(tipo, hilos[h].leidas))
       /\ \A h \in Hilos :
              (hilos[h].pc \in {"l77", "l113"} /\ hilos'[h].pc # hilos[h].pc) =>
                  /\ hilos'[h].retorno = Algun(CacheDe(motor, hilos[h].tipo))
                  /\ motor' = motor]_vars

\* A thread is in the middle of its loop, with one of two rows in its local
\* mapping, and the other thread, which loaded meanwhile, was handed the mapping
\* the cache holds.
C13_Testigo ==
    /\ hilos["h1"].pc = "l100"
    /\ hilos["h1"].tipo = "repuestos"
    /\ hilos["h1"].i = 1
    /\ Len(hilos["h1"].leidas) = 2
    /\ hilos["h2"].op = "cargar_palabras_clave_repuestos"
    /\ hilos["h2"].pc = "ocioso"
    /\ motor.cache_palabras_repuestos # NULL
    /\ hilos["h2"].retorno = Algun(motor.cache_palabras_repuestos)
    /\ Len(motor.cache_palabras_repuestos[1]) = 2

\* A loader returned None: the cache was unset between its assignment and the
\* read of line 113.
HiloRecibeNone ==
    \E h \in Hilos :
        /\ hilos[h].op = "cargar_palabras_clave_repuestos"
        /\ hilos[h].pc = "ocioso"
        /\ hilos[h].retorno = Algun(NULL)

\* The records that step appended to the audit store.
Anexados ==
    SubSeq(clasificaciones_automaticas', Len(clasificaciones_automaticas) + 1,
           Len(clasificaciones_automaticas'))

\* How many of them are of that record id and pass type.
CuentaAnexados(mantenimiento_id, tipo) ==
    Cardinality({i \in 1..Len(Anexados) :
                    /\ Anexados[i].mantenimiento_id = mantenimiento_id
                    /\ Anexados[i].tipo = tipo})

\* That step is a call of analyze on a description that is not empty, and it
\* returned its report.
AnalizoDescripcion ==
    /\ llamada'.op = "analizar_mantenimiento_completo"
    /\ llamada'.descripcion # None
    /\ llamada'.descripcion # <<>>
    /\ resultado'.tipo = "ok"

\* C14 (as stated): whenever analyze is given a record id, 0 included, and a
\* pass has a best match, exactly one record of that id and pass type is
\* appended to the audit store.
C14_RegistraConIdentificador ==
    [][(AnalizoDescripcion /\ llamada'.mantenimiento_id # NULL)
          => /\ resultado'.valor.mejor_repuesto # NULL =>
                    CuentaAnexados(llamada'.mantenimiento_id[1], "repuesto") = 1
             /\ resultado'.valor.mejor_trabajo # NULL =>
                    CuentaAnexados(llamada'.mantenimiento_id[1], "trabajo") = 1]_vars

\* The text that step's analyze gave to the pass of that type.
TextoDelPaso(tipo) ==
    IF tipo = "repuesto" THEN Textos(split(llamada'.descripcion)).texto_repuestos
    ELSE Textos(split(llamada'.descripcion)).texto_trabajos

\* The detection that step's recorder was given for the pass of that type: the
\* one the caller passed, or the one analyze computed from the pass's text.
DeteccionDelPaso(tipo) ==
    IF llamada'.op = "guardar_clasificacion" THEN resultado.valor
    ELSE IF tipo = "repuesto"
         THEN detectar_repuestos(motor', TRUE, <<>>, TextoDelPaso(tipo),
                                 UmbralPorDefecto).resultado.valor
         ELSE detectar_trabajos(motor', TRUE, <<>>, TextoDelPaso(tipo),
                                UmbralPorDefecto).resultado.valor

\* The record id that step's recorder was given.
IdentificadorDelPaso ==
    IF llamada'.op = "guardar_clasificacion" THEN llamada'.mantenimiento_id
    ELSE llamada'.mantenimiento_id[1]

\* The record r is the one the recorder owes for detection d.
RegistroFiel(r, d) ==
    /\ r.mantenimiento_id = IdentificadorDelPaso
    /\ r.tipo \in {"repuesto", "trabajo"}
    /\ llamada'.op = "guardar_clasificacion" => r.tipo = llamada'.tipo
    /\ r.texto_original = d.texto_original
    /\ llamada'.op = "analizar_mantenimiento_completo" =>
           r.texto_original = TextoDelPaso(r.tipo)
    /\ d.clasificaciones # <<>>
    /\ r.categoria_detectada = d.clasificaciones[1].categoria
    /\ r.confianza = d.clasificaciones[1].confianza
    /\ r.palabras_encontradas.repr =
           [j \in 1..Len(d.clasificaciones) |-> d.clasificaciones[j].palabras_encontradas]

\* C15: every record appended carries the given record id, the text that pass
\* analysed, the pass type, the category and the confidence of the best match,
\* and the keyword lists of every match of the full ranked list.
C15_RegistroCompleto ==
    [][\A i \in 1..Len(Anexados) :
           RegistroFiel(Anexados[i], DeteccionDelPaso(Anexados[i].tipo))]_vars

\* C15 witness: a record was appended that carries the keyword lists of six
\* matches, more than the report shows.
C15_Testigo ==
    \E i \in 1..Len(clasificaciones_automaticas) :
        Len(clasificaciones_automaticas[i].palabras_encontradas.repr) > 5

\* How many of the records that step appended are of that pass type.
AnexadosDeTipo(tipo) ==
    Cardinality({i \in 1..Len(Anexados) : Anexados[i].tipo = tipo})

\* That step kept every record the audit store held, as it was and in place.
SoloAnexa ==
    /\ Len(clasificaciones_automaticas') >= Len(clasificaciones_automaticas)
    /\ SubSeq(clasificaciones_automaticas', 1, Len(clasificaciones_automaticas))
           = clasificaciones_automaticas

\* C16: no call of the engine modifies or removes a record of the audit
\* store; classify, load and invalidate append nothing; analyze appends at most
\* one record per pass type, none for a pass without a best match and none
\* when it is given no record id; record appends none for a detection without
\* a best match.
C16_SoloAnexa ==
    [][/\ SoloAnexa
       /\ llamada'.op \notin {"analizar_mantenimiento_completo", "guardar_clasificacion"}
              => Anexados = <<>>
       /\ llamada'.op = "analizar_mantenimiento_completo" =>
              /\ AnexadosDeTipo("repuesto") <= 1
              /\ AnexadosDeTipo("trabajo") <= 1
              /\ Len(Anexados) = AnexadosDeTipo("repuesto") + AnexadosDeTipo("trabajo")
              /\ llamada'.mantenimiento_id = NULL => Anexados = <<>>
              /\ ~AnalizoDescripcion => Anexados = <<>>
              /\ AnalizoDescripcion =>
                     /\ resultado'.valor.mejor_repuesto = NULL =>
                            AnexadosDeTipo("repuesto") = 0
                     /\ resultado'.valor.mejor_trabajo = NULL =>
                            AnexadosDeTipo("trabajo") = 0
       /\ llamada'.op = "guardar_clasificacion" =>
              /\ Len(Anexados) <= 1
              /\ (/\ llamada.op \in {"detectar_repuestos", "detectar_trabajos"}
                  /\ resultado.valor.mejor_clasificacion = NULL) => Anexados = <<>>]_vars

\* C16 witness: the audit store holds two records that two calls appended, the
\* second call having kept the record of the first.
C16_Testigo ==
    /\ Len(clasificaciones_automaticas) = 2
    /\ clasificaciones_automaticas[1].mantenimiento_id
           # clasificaciones_automaticas[2].mantenimiento_id

\* A call of record was given a detection without a best match.
RegistroSinMejor ==
    /\ llamada.op = "guardar_clasificacion"
    /\ traza = <<>>

\* Line 340: the parts of the description, each stripped.
SegmentosDe(partes) == [i \in 1..Len(partes) |-> strip(partes[i])]

\* The segments of the description of that step's analyze.
Segmentos == CHOOSE s \in {SegmentosDe(p) : p \in {split(llamada'.descripcion)}} : TRUE

\* The label of a segment: lines 341 and 343.
EsDeRepuestos(segmento) == EmpiezaCon(segmento, Etiqueta_repuesto)

EsDeTrabajos(segmento) ==
    ~EsDeRepuestos(segmento) /\ EmpiezaCon(segmento, Etiqueta_trabajo)

\* The segment goes to the pass of that type.
VaAlPaso(tipo, segmento) ==
    IF tipo = "repuesto" THEN ~EsDeTrabajos(segmento) ELSE ~EsDeRepuestos(segmento)

\* The segments that go to the pass of that type, each after a space.
RECURSIVE TextoUnido(_, _)
TextoUnido(tipo, segmentos) ==
    IF segmentos = <<>> THEN <<>>
    ELSE (IF VaAlPaso(tipo, Head(segmentos)) THEN <<" ">> \o Head(segmentos) ELSE <<>>)
             \o TextoUnido(tipo, Tail(segmentos))

\* The keywords of the matches that the report lists for the pass of that type.
PalabrasDelInforme(tipo) ==
    LET lista == IF tipo = "repuesto" THEN resultado'.valor.repuestos
                 ELSE resultado'.valor.trabajos
    IN UNION {{lista[i].palabras[j] : j \in 1..Len(lista[i].palabras)} :
                 i \in 1..Len(lista)}

\* The keyword occurs in that segment, both normalized.
OcurreEn(palabra, segmento) ==
    Contiene(normalizar_texto(palabra), normalizar_texto(segmento))

\* The keyword occurs in a segment labelled for the other pass and in no
\* segment that goes to the pass of that type.
SoloEnAjenos(tipo, palabra) ==
    /\ \E i \in 1..Len(Segmentos) :
           ~VaAlPaso(tipo, Segmentos[i]) /\ OcurreEn(palabra, Segmentos[i])
    /\ \A i \in 1..Len(Segmentos) :
           VaAlPaso(tipo, Segmentos[i]) => ~OcurreEn(palabra, Segmentos[i])

\* The matches the report lists for the pass of that type are those of the
\* classifier on that text.
PasoSobreTexto(tipo, texto) ==
    IF tipo = "repuesto"
    THEN resultado'.valor.repuestos =
             Top5(detectar_repuestos(motor', TRUE, <<>>, texto,
                                     UmbralPorDefecto).resultado.valor.clasificaciones)
    ELSE resultado'.valor.trabajos =
             Top5(detectar_trabajos(motor', TRUE, <<>>, texto,
                                    UmbralPorDefecto).resultado.valor.clasificaciones)

\* C17 (as stated): analyze routes each segment by its label, and a keyword
\* that occurs only in a segment labelled for the other pass produces no match
\* of a pass.
C17_SoloEnSuPaso ==
    [][AnalizoDescripcion =>
           \A tipo \in {"repuesto", "trabajo"} :
               \A palabra \in PalabrasDelInforme(tipo) : ~SoloEnAjenos(tipo, palabra)]_vars

\* C17 (amended): analyze routes each segment by its label, each pass
\* classifies the text of its segments joined by single spaces, and a keyword
\* that does not occur in that joined text produces no match of the pass.
C17_RepartoPorEtiqueta ==
    [][AnalizoDescripcion =>
           \A tipo \in {"repuesto", "trabajo"} :
               \A texto \in {TextoUnido(tipo, Segmentos)} :
                   /\ PasoSobreTexto(tipo, texto)
                   /\ \A texto_normalizado \in {normalizar_texto(texto)} :
                          \A palabra \in PalabrasDelInforme(tipo) :
                              Contiene(normalizar_texto(palabra), texto_normalizado)]_vars

\* C17 witness: analyze of "TRABAjo cd|repuesto dc" reported the labor match of
\* "cd" alone and the part match of "dc" alone.
C17_Testigo ==
    /\ llamada.op = "analizar_mantenimiento_completo"
    /\ llamada.descripcion = <<"T", "R", "A", "B", "A", "j", "o", " ", "c", "d", "|",
                               "r", "e", "p", "u", "e", "s", "t", "o", " ", "d", "c">>
    /\ resultado.tipo = "ok"
    /\ Len(resultado.valor.trabajos) = 1
    /\ resultado.valor.trabajos[1].palabras = <<<<"c", "d">>>>
    /\ Len(resultado.valor.repuestos) = 1
    /\ resultado.valor.repuestos[1].palabras = <<<<"d", "c">>>>

\* Analyze of "cd|Repuesto dc" gave the segment without a label to both passes.
SinEtiquetaAAmbos ==
    /\ llamada.op = "analizar_mantenimiento_completo"
    /\ llamada.descripcion = <<"c", "d", "|", "R", "e", "p", "u", "e", "s", "t", "o", " ", "d", "c">>
    /\ resultado.tipo = "ok"
    /\ Len(resultado.valor.trabajos) = 1
    /\ resultado.valor.trabajos[1].palabras = <<<<"c", "d">>>>
    /\ Len(resultado.valor.repuestos) = 2

\* The list of the report of that step for the pass of that type, its best
\* category and its overall confidence.
ListaDelInforme(tipo) ==
    IF tipo = "repuesto" THEN resultado'.valor.repuestos ELSE resultado'.valor.trabajos

MejorDelInforme(tipo) ==
    IF tipo = "repuesto" THEN resultado'.valor.mejor_repuesto
    ELSE resultado'.valor.mejor_trabajo

ConfianzaDelInforme(tipo) ==
    IF tipo = "repuesto" THEN resultado'.valor.confianza_repuestos
    ELSE resultado'.valor.confianza_trabajos

\* The list of the report holds the first five entries of the full ranked list
\* completa, in its order, and the best category and the overall confidence
\* reported are those of its head.
InformeDe(tipo, lista, completa) ==
    /\ Len(lista) <= 5
    /\ Len(lista) = Min(Len(completa), 5)
    /\ \A i \in 1..Len(lista) :
           /\ lista[i].categoria = completa[i].categoria
           /\ lista[i].confianza = Porcentaje(completa[i].confianza)
           /\ lista[i].palabras = completa[i].palabras_encontradas
           /\ lista[i].color = completa[i].color_codigo
    /\ MejorDelInforme(tipo) =
           IF completa = <<>> THEN NULL ELSE Algun(completa[1].categoria)
    /\ ConfianzaDelInforme(tipo) =
           IF completa = <<>> THEN 0 ELSE Porcentaje(completa[1].confianza)
    /\ lista # <<>> =>
           /\ Algun(lista[1].categoria) = MejorDelInforme(tipo)
           /\ lista[1].confianza = ConfianzaDelInforme(tipo)

\* C18: each list of a report holds at most five entries, the first five of
\* the pass's full ranked list in its order; the best category and the overall
\* confidence reported are those of the head of the full list, so the first
\* entry of a list that is not empty has them.
C18_InformeTop5 ==
    [][/\ (llamada'.op = "analizar_mantenimiento_completo" /\ resultado'.tipo = "ok")
              => Len(resultado'.valor.repuestos) <= 5 /\ Len(resultado'.valor.trabajos) <= 5
       /\ AnalizoDescripcion =>
              \A tipo \in {"repuesto", "trabajo"} :
                  \A d \in {DeteccionDelPaso(tipo)} :
                      InformeDe(tipo, ListaDelInforme(tipo), d.clasificaciones)]_vars

\* C18 witness: a report lists five part matches of the six that the pass
\* ranked.
C18_Testigo ==
    /\ llamada.op = "analizar_mantenimiento_completo"
    /\ resultado.tipo = "ok"
    /\ llamada.descripcion # None
    /\ llamada.descripcion # <<>>
    /\ Len(resultado.valor.repuestos) = 5
    /\ resultado.valor.resumen.tipos_de_repuestos = 6

\* Two scored entries that differ in nothing the score reads but the synonym
\* flag: c1 a synonym, c2 not, of the same positive weight.
SinonimoYPrincipal(c1, c2) ==
    /\ c1.dato.es_sinonimo
    /\ ~c2.dato.es_sinonimo
    /\ c1.dato.peso = c2.dato.peso
    /\ c1.dato.peso > 0
    /\ (c1.dato.categoria_padre = NULL) = (c2.dato.categoria_padre = NULL)
    /\ CoincidePalabraCompleta(c1.palabra_norm, normalizar_texto(llamada.texto))
         = CoincidePalabraCompleta(c2.palabra_norm, normalizar_texto(llamada.texto))
    /\ llamada.op = "detectar_trabajos" => c1.dato.complejidad = c2.dato.complejidad

\* C19: of two entries that differ only in the synonym flag, the synonym's
\* score is 0.8 of the other's and its confidence is never higher.
C19_SinonimoNuncaMayor ==
    Detecto =>
        \A i, j \in 1..Len(Puntuadas) :
            SinonimoYPrincipal(Puntuadas[i], Puntuadas[j]) =>
                /\ PuntajeDe(Puntuadas[i]) * 10 = PuntajeDe(Puntuadas[j]) * 8
                /\ ConfianzaDe(Puntuadas[i]) <= ConfianzaDe(Puntuadas[j])

\* C19 witness: a synonym and an entry equal otherwise were scored by a call
\* of the part classifier, and the synonym's confidence is the lower.
C19_Testigo ==
    /\ Detecto
    /\ llamada.op = "detectar_repuestos"
    /\ \E i, j \in 1..Len(Puntuadas) :
           /\ SinonimoYPrincipal(Puntuadas[i], Puntuadas[j])
           /\ ConfianzaDe(Puntuadas[i]) < ConfianzaDe(Puntuadas[j])

\* The same for a call of the labor classifier.
SinonimoDeTrabajo ==
    /\ Detecto
    /\ llamada.op = "detectar_trabajos"
    /\ \E i, j \in 1..Len(Puntuadas) :
           /\ SinonimoYPrincipal(Puntuadas[i], Puntuadas[j])
           /\ ConfianzaDe(Puntuadas[i]) < ConfianzaDe(Puntuadas[j])

\* A letter without its accent and in lower case.
LetraBase(c) ==
    CASE c \in {"á", "Á", "A"} -> "a"
      [] c = "B" -> "b"
      [] c = "R" -> "r"
      [] c = "S" -> "s"
      [] c = "T" -> "t"
      [] OTHER -> c

\* A word without its accents and in lower case.
SinAcentos(s) == [i \in 1..Len(s) |-> LetraBase(s[i])]

\* The string is a word: letters and nothing else.
SoloLetras(s) ==
    /\ s # None
    /\ s # <<>>
    /\ \A i \in 1..Len(s) : s[i] \in Minusculas \cup Mayusculas \cup Acentuadas

TieneAcento(s) == \E i \in 1..Len(s) : s[i] \in Acentuadas

\* The rows of the taxonomy table that call read.
FilasDeLaLlamada ==
    IF llamada.op = "detectar_repuestos" THEN tabla_repuestos ELSE tabla_trabajos

\* That call scored the row, and reported its category when the score
\* reached the threshold.
FilaDetectada(fila) ==
    \E i \in 1..Len(Puntuadas) :
        /\ Puntuadas[i].dato.palabra_original = fila.palabra
        /\ Puntuadas[i].dato.categoria_id = fila.categoria_id
        /\ ConfianzaDe(Puntuadas[i]) >= llamada.umbral_confianza =>
               \E k \in 1..Len(resultado.valor.clasificaciones) :
                   /\ resultado.valor.clasificaciones[k].categoria = fila.categoria_nombre
                   /\ resultado.valor.clasificaciones[k].confianza >= ConfianzaDe(Puntuadas[i])

\* C20: the classifier matches a keyword in a text whenever the keyword
\* without its accents occurs in the text without its accents, whichever of the
\* two carries the accent; the keyword and its form without accents have the
\* same normalization.
C20_SinDistinguirAcentos ==
    (Detecto /\ SoloLetras(llamada.texto)) =>
        \A fila \in FilasDeLaLlamada :
            (SoloLetras(fila.palabra)
               /\ Contiene(SinAcentos(fila.palabra), SinAcentos(llamada.texto))) =>
                /\ normalizar_texto(fila.palabra) = normalizar_texto(SinAcentos(fila.palabra))
                /\ normalizar_texto(llamada.texto) = normalizar_texto(SinAcentos(llamada.texto))
                /\ FilaDetectada(fila)

\* C20 witness: a text with an accent was matched by a keyword registered
\* without it, and the category was reported.
C20_Testigo ==
    /\ Detecto
    /\ SoloLetras(llamada.texto)
    /\ TieneAcento(llamada.texto)
    /\ \E fila \in FilasDeLaLlamada :
           /\ ~TieneAcento(fila.palabra)
           /\ FilaDetectada(fila)
           /\ \E k \in 1..Len(resultado.valor.clasificaciones) :
                  resultado.valor.clasificaciones[k].categoria = fila.categoria_nombre

\* The other direction: a text without accents was matched by a keyword
\* registered with one, and the category was reported.
AcentoEnLaPalabra ==
    /\ Detecto
    /\ SoloLetras(llamada.texto)
    /\ ~TieneAcento(llamada.texto)
    /\ \E fila \in FilasDeLaLlamada :
           /\ TieneAcento(fila.palabra)
           /\ FilaDetectada(fila)
           /\ \E k \in 1..Len(resultado.valor.clasificaciones) :
                  resultado.valor.clasificaciones[k].categoria = fila.categoria_nombre

\* That state follows an analyze of the example that returned its report.
AnalizoEscenarioA ==
    /\ llamada.op = "analizar_mantenimiento_completo"
    /\ llamada.descripcion = EscenarioA
    /\ resultado.tipo = "ok"

\* The list of a report holds a match of that category whose confidence, in
\* tenths of a percent, is more than 0 and at most 100.
HayCoincidencia(lista, categoria) ==
    \E i \in 1..Len(lista) :
        /\ lista[i].categoria = categoria
        /\ lista[i].confianza > 0
        /\ lista[i].confianza <= 1000

\* C21: analyze of the example, with the keyword "filtro" in the root
\* category "Filtros" and the keyword "service" in the root category
\* "Mantenimiento General", reports a part match for "Filtros" and a labor match
\* for "Mantenimiento General", each with a confidence above 0 and at most 100.
C21_EscenarioA ==
    AnalizoEscenarioA =>
        /\ HayCoincidencia(resultado.valor.repuestos, "Filtros")
        /\ HayCoincidencia(resultado.valor.trabajos, "Mantenimiento General")

\* C21 witness: analyze of the example returned a report with both matches at
\* 67.5 percent.
C21_Testigo ==
    /\ AnalizoEscenarioA
    /\ resultado.valor.mejor_repuesto = Algun("Filtros")
    /\ resultado.valor.mejor_trabajo = Algun("Mantenimiento General")
    /\ resultado.valor.confianza_repuestos = 675
    /\ resultado.valor.confianza_trabajos = 675

\* The rows of the table of that call whose keyword has that normalized form.
FilasDeClave(clave) ==
    {fila \in FilasDeLaLlamada : normalizar_texto(fila.palabra) = clave}

\* The mapping that call read holds, under the normalized form of the row's
\* keyword, one entry for every row of that form, the row's among them.
FilaRetenida(fila) ==
    \E n \in 1..Len(PalabrasClave) :
        /\ PalabrasClave[n].palabra_norm = normalizar_texto(fila.palabra)
        /\ Len(PalabrasClave[n].datos) = Cardinality(FilasDeClave(PalabrasClave[n].palabra_norm))
        /\ \E i \in 1..Len(PalabrasClave[n].datos) :
               /\ PalabrasClave[n].datos[i].palabra_original = fila.palabra
               /\ PalabrasClave[n].datos[i].categoria_id = fila.categoria_id
               /\ PalabrasClave[n].datos[i].categoria_nombre = fila.categoria_nombre

\* C22: the loader retains the entry of every row, also of rows whose
\* keywords have the same normalized form; the classifier scores every entry
\* whose key occurs in the text and reports the category of every one that
\* reaches the threshold.
C22_TodasLasCategorias ==
    Detecto =>
        \A fila \in FilasDeLaLlamada :
            /\ FilaRetenida(fila)
            /\ Contiene(normalizar_texto(fila.palabra), normalizar_texto(llamada.texto))
                   => FilaDetectada(fila)

\* C22 witness: two rows of different categories have the same normalized
\* keyword, the text holds it, and the result reports both categories.
C22_Testigo ==
    /\ Detecto
    /\ \E f1, f2 \in FilasDeLaLlamada :
           /\ f1.categoria_nombre # f2.categoria_nombre
           /\ normalizar_texto(f1.palabra) = normalizar_texto(f2.palabra)
           /\ Contiene(normalizar_texto(f1.palabra), normalizar_texto(llamada.texto))
           /\ \E k1, k2 \in 1..Len(resultado.valor.clasificaciones) :
                  /\ resultado.valor.clasificaciones[k1].categoria = f1.categoria_nombre
                  /\ resultado.valor.clasificaciones[k2].categoria = f2.categoria_nombre

\* Every weight of the two taxonomy tables is positive.
PesosPositivos ==
    \A fila \in tabla_repuestos \cup tabla_trabajos : fila.peso > 0

\* Every confidence of a list of a report is between 0 and 100 percent.
EnPorcentaje(lista) ==
    \A i \in 1..Len(lista) : lista[i].confianza >= 0 /\ lista[i].confianza <= 1000

\* C23: with positive weights, every match of a result of the classifier has
\* a confidence between the threshold and 1.0, and every confidence of a report
\* of analyze is between 0 and 100.
C23_ConfianzaAcotada ==
    PesosPositivos =>
        /\ Detecto =>
               /\ llamada.umbral_confianza >= 0
               /\ \A k \in 1..Len(resultado.valor.clasificaciones) :
                      /\ resultado.valor.clasificaciones[k].confianza >= llamada.umbral_confianza
                      /\ resultado.valor.clasificaciones[k].confianza <= Unidad
               /\ resultado.valor.confianza_total >= 0
               /\ resultado.valor.confianza_total <= Unidad
        /\ (llamada.op = "analizar_mantenimiento_completo" /\ resultado.tipo = "ok") =>
               /\ EnPorcentaje(resultado.valor.repuestos)
               /\ EnPorcentaje(resultado.valor.trabajos)
               /\ resultado.valor.confianza_repuestos >= 0
               /\ resultado.valor.confianza_repuestos <= 1000
               /\ resultado.valor.confianza_trabajos >= 0
               /\ resultado.valor.confianza_trabajos <= 1000

\* C23 witness: a report lists a match whose score was capped, at 100 percent,
\* and one below it.
C23_Testigo ==
    /\ PesosPositivos
    /\ llamada.op = "analizar_mantenimiento_completo"
    /\ resultado.tipo = "ok"
    /\ Len(resultado.valor.repuestos) >= 2
    /\ resultado.valor.repuestos[1].confianza = 1000
    /\ resultado.valor.repuestos[2].confianza < 1000

\* The classifier returned a match whose score was capped at 1.0.
PuntajeAcotado ==
    /\ Detecto
    /\ \E k \in 1..Len(resultado.valor.clasificaciones) :
           resultado.valor.clasificaciones[k].confianza = Unidad

\* The step is a call of a classifier: the caller kept its observation.
PasoDeClasificacion == observado' # observado

\* Any two calls observed with the same text, threshold and taxonomy mapping
\* returned the same.
MismaRespuesta(obs) ==
    \A i, j \in 1..Len(obs) :
        (/\ obs[i].op = obs[j].op
         /\ obs[i].texto = obs[j].texto
         /\ obs[i].umbral_confianza = obs[j].umbral_confianza
         /\ obs[i].palabras_clave = obs[j].palabras_clave)
            => obs[i].resultado = obs[j].resultado

\* C24: two calls of a classifier with the same text, threshold and taxonomy
\* mapping return the same result, matches and order; a call of a classifier
\* leaves the audit store and the data source as they were.
C24_ClasificadorPuro ==
    [][/\ MismaRespuesta(observado')
       /\ PasoDeClasificacion =>
              UNCHANGED <<clasificaciones_automaticas, tabla_repuestos, tabla_trabajos,
                          fuente_disponible, auditoria_disponible>>]_vars

\* C24 witness: two calls with the same text, threshold and mapping were made
\* with a change of the data source between them, and both returned matches.
C24_Testigo ==
    /\ Len(observado) = 2
    /\ observado[1].op = observado[2].op
    /\ observado[1].umbral_confianza = observado[2].umbral_confianza
    /\ observado[1].palabras_clave = observado[2].palabras_clave
    /\ observado[2].resultado.tipo = "ok"
    /\ observado[2].resultado.valor.clasificaciones # <<>>
    /\ observado[2].op = "detectar_repuestos"
    /\ observado[2].palabras_clave # Algun(PalabrasRepuestos(CHOOSE f \in Consulta(tabla_repuestos) : TRUE))

\* The entries that call scored for that category and that reached the
\* threshold, by their place in the order of the loops.
Candidatas(categoria) ==
    {i \in 1..Len(Puntuadas) :
        /\ Puntuadas[i].dato.categoria_nombre = categoria
        /\ ConfianzaDe(Puntuadas[i]) >= llamada.umbral_confianza}

\* The first of the candidates of the highest confidence.
PrimeraMayor(candidatas) ==
    CHOOSE i \in candidatas :
        /\ \A j \in candidatas : ConfianzaDe(Puntuadas[j]) <= ConfianzaDe(Puntuadas[i])
        /\ \A j \in candidatas :
               ConfianzaDe(Puntuadas[j]) = ConfianzaDe(Puntuadas[i]) => i <= j

\* C25: the match that survives for a category has the highest confidence of
\* the candidates of that category that reached the threshold, and is the first
\* of them that has it.
C25_MayorPorCategoria ==
    Detecto =>
        \A k \in 1..Len(resultado.valor.clasificaciones) :
            \A candidatas \in {Candidatas(resultado.valor.clasificaciones[k].categoria)} :
                /\ candidatas # {}
                /\ \A i \in candidatas :
                       ConfianzaDe(Puntuadas[i]) <= resultado.valor.clasificaciones[k].confianza
                /\ resultado.valor.clasificaciones[k].confianza
                       = ConfianzaDe(Puntuadas[PrimeraMayor(candidatas)])
                /\ resultado.valor.clasificaciones[k].palabras_encontradas[1]
                       = Puntuadas[PrimeraMayor(candidatas)].dato.palabra_original

\* C25 witness: three candidates of one category reached the threshold, two of
\* them with the highest confidence and one below, and one match survived.
C25_Testigo ==
    /\ Detecto
    /\ Len(resultado.valor.clasificaciones) = 1
    /\ \E i, j, n \in Candidatas(resultado.valor.clasificaciones[1].categoria) :
           /\ i < j
           /\ ConfianzaDe(Puntuadas[i]) = ConfianzaDe(Puntuadas[j])
           /\ ConfianzaDe(Puntuadas[n]) < ConfianzaDe(Puntuadas[i])
           /\ resultado.valor.clasificaciones[1].confianza = ConfianzaDe(Puntuadas[i])

\* C26: the match that survives for a category lists the original text of
\* every keyword whose candidate of that category reached the threshold.
C26_AcumulaPalabras ==
    Detecto =>
        \A k \in 1..Len(resultado.valor.clasificaciones) :
            \A i \in Candidatas(resultado.valor.clasificaciones[k].categoria) :
                \E n \in 1..Len(resultado.valor.clasificaciones[k].palabras_encontradas) :
                    resultado.valor.clasificaciones[k].palabras_encontradas[n]
                        = Puntuadas[i].dato.palabra_original

\* The keyword of a scored entry occurs in the text of the call between word
\* boundaries.
PalabraCompleta(c) ==
    CoincidePalabraCompleta(c.palabra_norm, normalizar_texto(llamada.texto))

\* Two scored entries that differ in nothing the score reads but the keyword.
IgualesSalvoLaPalabra(c1, c2) ==
    /\ c1.dato.peso = c2.dato.peso
    /\ c1.dato.peso > 0
    /\ c1.dato.es_sinonimo = c2.dato.es_sinonimo
    /\ (c1.dato.categoria_padre = NULL) = (c2.dato.categoria_padre = NULL)
    /\ llamada.op = "detectar_trabajos" => c1.dato.complejidad = c2.dato.complejidad

\* C27: every entry whose normalized keyword is a substring of the normalized
\* text is a candidate, its category is in the result when its confidence
\* reaches the threshold; of two entries equal otherwise, the one whose keyword
\* occurs between word boundaries scores 1.5 times the one whose keyword does
\* not, two that both do or both do not score the same, and the confidence of
\* the whole-word one is never the lower.
C27_SubcadenaYPalabraCompleta ==
    Detecto =>
        /\ \A n \in 1..Len(PalabrasClave) :
               Contiene(PalabrasClave[n].palabra_norm, normalizar_texto(llamada.texto)) =>
                   \A d \in 1..Len(PalabrasClave[n].datos) :
                       \E i \in 1..Len(Puntuadas) :
                           /\ Puntuadas[i].palabra_norm = PalabrasClave[n].palabra_norm
                           /\ Puntuadas[i].dato = PalabrasClave[n].datos[d]
                           /\ ConfianzaDe(Puntuadas[i]) >= llamada.umbral_confianza =>
                                  \E k \in 1..Len(resultado.valor.clasificaciones) :
                                      /\ resultado.valor.clasificaciones[k].categoria
                                             = Puntuadas[i].dato.categoria_nombre
                                      /\ resultado.valor.clasificaciones[k].confianza
                                             >= ConfianzaDe(Puntuadas[i])
        /\ \A i, j \in 1..Len(Puntuadas) :
               IgualesSalvoLaPalabra(Puntuadas[i], Puntuadas[j]) =>
                   /\ (PalabraCompleta(Puntuadas[i]) /\ ~PalabraCompleta(Puntuadas[j])) =>
                          /\ PuntajeDe(Puntuadas[i]) * 10 = PuntajeDe(Puntuadas[j]) * 15
                          /\ ConfianzaDe(Puntuadas[i]) >= ConfianzaDe(Puntuadas[j])
                   /\ (PalabraCompleta(Puntuadas[i]) = PalabraCompleta(Puntuadas[j])) =>
                          PuntajeDe(Puntuadas[i]) = PuntajeDe(Puntuadas[j])

\* C27 witness: a call of the part classifier scored two entries equal but for
\* the keyword, one found as a whole word and one only inside a word, and the
\* result carries the confidence of the first.
C27_Testigo ==
    /\ Detecto
    /\ llamada.op = "detectar_repuestos"
    /\ Len(resultado.valor.clasificaciones) = 1
    /\ \E i, j \in 1..Len(Puntuadas) :
           /\ IgualesSalvoLaPalabra(Puntuadas[i], Puntuadas[j])
           /\ PalabraCompleta(Puntuadas[i])
           /\ ~PalabraCompleta(Puntuadas[j])
           /\ ConfianzaDe(Puntuadas[j]) < ConfianzaDe(Puntuadas[i])
           /\ resultado.valor.clasificaciones[1].confianza = ConfianzaDe(Puntuadas[i])

\* The score the part classifier gives an entry of that keyword, weight,
\* synonym flag and parent in the text of the call.
ComoRepuesto(c) ==
    puntaje_repuesto(c.dato, c.palabra_norm, normalizar_texto(llamada.texto))

\* The score the labor classifier gives an entry of that keyword, weight,
\* synonym flag and parent, of a category of that complexity.
ComoTrabajo(c, complejidad) ==
    puntaje_trabajo([peso |-> c.dato.peso, es_sinonimo |-> c.dato.es_sinonimo,
                     categoria_padre |-> c.dato.categoria_padre,
                     complejidad |-> Algun(complejidad)],
                    c.palabra_norm, normalizar_texto(llamada.texto))

\* C28: the labor classifier scores an entry of complexity 3 or more 1.2 times
\* what the part classifier gives an entry equal otherwise, and an entry of
\* complexity 1 or 2 the same; the part classifier scores every entry as the
\* labor classifier scores an entry of complexity 1 or 2 equal otherwise.
C28_BonoDeComplejidad ==
    Detecto =>
        \A i \in 1..Len(Puntuadas) :
            /\ llamada.op = "detectar_trabajos" =>
                   /\ Puntuadas[i].dato.complejidad # NULL
                   /\ Puntuadas[i].dato.complejidad[1] >= 3 =>
                          PuntajeDe(Puntuadas[i]) * 10 = ComoRepuesto(Puntuadas[i]) * 12
                   /\ Puntuadas[i].dato.complejidad[1] \in {1, 2} =>
                          PuntajeDe(Puntuadas[i]) = ComoRepuesto(Puntuadas[i])
            /\ llamada.op = "detectar_repuestos" =>
                   /\ PuntajeDe(Puntuadas[i]) = ComoTrabajo(Puntuadas[i], 1)
                   /\ PuntajeDe(Puntuadas[i]) = ComoTrabajo(Puntuadas[i], 2)
                   /\ PuntajeDe(Puntuadas[i]) * 12 = ComoTrabajo(Puntuadas[i], 3) * 10

\* C28 witness: a call of the labor classifier returned as its one match an
\* entry of complexity 3, with a confidence above the one the part classifier
\* gives an entry equal otherwise.
C28_Testigo ==
    /\ Detecto
    /\ llamada.op = "detectar_trabajos"
    /\ Len(Puntuadas) = 1
    /\ Len(resultado.valor.clasificaciones) = 1
    /\ Puntuadas[1].dato.complejidad = Algun(3)
    /\ resultado.valor.clasificaciones[1].confianza = Acotar(PuntajeDe(Puntuadas[1]))
    /\ resultado.valor.clasificaciones[1].confianza > Acotar(ComoRepuesto(Puntuadas[1]))

\* C30: a call of the labor classifier does not raise over the complexity of a
\* category; when the mapping it read has a matched entry of no complexity, it
\* returns a result.
C30_SinComplejidadNoFalla ==
    (/\ llamada.op = "detectar_trabajos"
     /\ motor.cache_palabras_trabajos # NULL
     /\ \E i \in 1..Len(Puntuadas) : Puntuadas[i].dato.complejidad = NULL)
        => resultado.tipo = "ok"

\* The mappings of that kind that a query gives in one of the states the data
\* source has had since the last return of invalidar_cache.
MapasDesdeInvalidar(tipo) ==
    IF tipo = "repuestos"
    THEN UNION {MapasRepuestos(tabla) : tabla \in observado[1].tablas_repuestos}
    ELSE UNION {MapasTrabajos(tabla) : tabla \in observado[1].tablas_trabajos}

\* C29: once invalidar_cache has returned, a loader that assigns the cache
\* assigns it a mapping of a state the data source has had since that return,
\* and the mapping a loader returns is one of such a state.
C29_NadaAnteriorTrasInvalidar ==
    [][observado # <<>> =>
          \A h \in Hilos :
              /\ (hilos[h].pc = "l100" /\ hilos'[h].pc = "l113") =>
                     CacheDe(motor', hilos[h].tipo)[1] \in MapasDesdeInvalidar(hilos[h].tipo)
              /\ (/\ hilos[h].pc \in {"l77", "l113"}
                  /\ hilos'[h].pc # hilos[h].pc
                  /\ hilos'[h].retorno[1] # NULL) =>
                     hilos'[h].retorno[1][1] \in MapasDesdeInvalidar(hilos[h].tipo)]_vars

====
